---- MODULE Spec2Model ----
(***************************************************************************)
(* QueryScorer (src/src/QueryScorer.js): a phrase tree over the words of   *)
(* the registered documents' phrases, and a scorer that walks it with a    *)
(* per-word Levenshtein threshold.                                         *)
(*                                                                         *)
(* A JavaScript string is a sequence of one-character strings; a word is   *)
(* such a sequence without whitespace.  A document object is a record      *)
(* [id, phrases]; the pool below holds distinct objects, so record         *)
(* equality is object identity.  A node of the phrase tree is named by     *)
(* the sequence of words on its path from the root (the root is <<>>);     *)
(* _rootNode maps every node of the tree to its `documents` set, and a     *)
(* node's childrenByWord are the nodes one word longer than it.            *)
(***************************************************************************)
EXTENDS Integers, Sequences, FiniteSets, TLC

VARIABLES _distanceThreshold, _variations, _documents, _rootNode, ret

\* The one field of the earlier, flat QueryScorer (src/unnamed/part_001).
VARIABLES _documentsByWord

\* The globals of src/src/background.js (its queryScorer is the scorer
\* above), and the parts of the browser it talks to: the extension's local
\* storage, the keyed telemetry scalars, the survey tabs created in this
\* browser session, the tip result the urlbar view displays, the browser
\* session, and the positions of the asynchronous functions: enroll, the
\* onBehaviorRequested and maybeOpenSurvey invocations waiting at an await,
\* and the pending setTimeout callbacks of onEngagement.
VARIABLES studyBranch, currentTip, tipsShownInCurrentEngagement, tipPicked,
          openedSurvey, storage, scalars, tabs, displayed, session,
          enrollPc, behaviorCalls, surveyCalls, timers

\* More of the browser: the urlbar listeners the add-on has registered, the
\* urlbar's engagement event telemetry setting and the position of unenroll.
VARIABLES listeners, engagementTelemetry, unenrollPc

\* What the urlbar knows and the add-on does not: the state of its latest
\* query with the tip onBehaviorRequested selected for it, and for each
\* pending setTimeout callback whether onResultPicked has run since
\* onEngagement set it.  No handler reads or writes them.
VARIABLES query, pickedSince

urlbarVars == <<query, pickedSince>>

backgroundVars ==
  <<studyBranch, currentTip, tipsShownInCurrentEngagement, tipPicked,
    openedSurvey, storage, scalars, tabs, displayed, session,
    enrollPc, behaviorCalls, surveyCalls, timers,
    listeners, engagementTelemetry, unenrollPc, urlbarVars>>

\* The state that is not the phrase-tree scorer's.
otherVars == <<_documentsByWord, backgroundVars>>

\* The value of a property an object does not have.
undefined == "undefined"

\* The urlbar view displays no tip result.
NoResult == "no result"

\* The urlbar has started no query.
NoQuery == [state |-> "none", tip |-> ""]

\* background.js as loaded, before main has run, in one browser session.
BackgroundLoaded ==
  /\ studyBranch = undefined
  /\ currentTip = ""
  /\ tipsShownInCurrentEngagement = <<>>
  /\ tipPicked = FALSE
  /\ openedSurvey = FALSE
  /\ scalars = [tipShownCount |-> <<>>, tipPickedCount |-> <<>>]
  /\ tabs = <<>>
  /\ displayed = NoResult
  /\ session = 1
  /\ enrollPc = "main"
  /\ behaviorCalls = <<>>
  /\ surveyCalls = <<>>
  /\ timers = <<>>
  /\ listeners = {}
  /\ engagementTelemetry = FALSE
  /\ unenrollPc = "none"
  /\ query = NoQuery
  /\ pickedSince = <<>>

\* browser.storage.local without items.  A forceSurvey that is not set reads
\* like 0: neither == 2 nor truthy.
EmptyStorage == [surveyPickedTip |-> undefined, forceSurvey |-> 0]

\* background.js does not run.
BackgroundIdle == BackgroundLoaded /\ storage = EmptyStorage

\* No flat scorer is in use and background.js does not run.
OthersIdle == _documentsByWord = <<>> /\ BackgroundIdle

vars == <<_distanceThreshold, _variations, _documents, _rootNode, ret,
          otherVars>>

-----------------------------------------------------------------------------
(* Bounds of the model. *)

\* At most this many distinct document objects are registered.
MaxDocs == 2

\* distanceThreshold is drawn from 0..MaxThreshold (the default is 1).
MaxThreshold == 2

\* The value of a score that is Number.POSITIVE_INFINITY: larger than every
\* sum of edit distances the model can produce.
Infinity == 1000000

-----------------------------------------------------------------------------
(* Strings. *)

Whitespace == {" "}

\* String.prototype.toLocaleLowerCase on one character.
LowerChar(c) ==
  CASE c = "A" -> "a"
    [] c = "B" -> "b"
    [] OTHER -> c

\* word.toLocaleLowerCase()
toLocaleLowerCase(word) == [i \in 1..Len(word) |-> LowerChar(word[i])]

RECURSIVE TrimStart(_)
TrimStart(s) ==
  IF s # <<>> /\ Head(s) \in Whitespace THEN TrimStart(Tail(s)) ELSE s

RECURSIVE TrimEnd(_)
TrimEnd(s) ==
  IF s # <<>> /\ s[Len(s)] \in Whitespace
  THEN TrimEnd(SubSeq(s, 1, Len(s) - 1))
  ELSE s

\* String.prototype.trim
trim(s) == TrimEnd(TrimStart(s))

\* String.prototype.split(/\s+/): the pieces between maximal runs of
\* whitespace; a leading or trailing run leaves an empty piece, and the
\* empty string splits into one empty piece.
RECURSIVE SplitFrom(_, _, _, _)
SplitFrom(s, i, cur, acc) ==
  IF i > Len(s) THEN Append(acc, cur)
  ELSE IF s[i] \in Whitespace
       THEN IF i < Len(s) /\ s[i + 1] \in Whitespace
            THEN SplitFrom(s, i + 1, cur, acc)
            ELSE SplitFrom(s, i + 1, <<>>, Append(acc, cur))
       ELSE SplitFrom(s, i + 1, Append(cur, s[i]), acc)

split(s) == SplitFrom(s, 1, <<>>, <<>>)

\* str.trim().split(/\s+/).map(word => word.toLocaleLowerCase())
Tokenize(s) ==
  LET pieces == split(trim(s))
  IN [i \in 1..Len(pieces) |-> toLocaleLowerCase(pieces[i])]

-----------------------------------------------------------------------------
(* _levenshtein: two rolling rows p1, p2 indexed 0..l2. *)

RECURSIVE LevInner(_, _, _, _, _, _, _, _, _)

\* The inner loop with costIns and costDel taken for each other.
LevInner_SwappedCosts(word1, word2, i1, i2, p1, p2, costIns, costRep, costDel) ==
  IF i2 >= Len(word2) THEN p2
  ELSE
    LET c0a == p1[i2] + (IF word1[i1 + 1] = word2[i2 + 1] THEN 0 ELSE costRep)
        c1  == p1[i2 + 1] + costIns
        c0b == IF c1 < c0a THEN c1 ELSE c0a
        c2  == p2[i2] + costDel
        c0  == IF c2 < c0b THEN c2 ELSE c0b
    IN LevInner(word1, word2, i1, i2 + 1, p1, [p2 EXCEPT ![i2 + 1] = c0],
                costIns, costRep, costDel)

LevInner(word1, word2, i1, i2, p1, p2, costIns, costRep, costDel) ==
  IF i2 >= Len(word2) THEN p2
  ELSE
    LET c0a == p1[i2] + (IF word1[i1 + 1] = word2[i2 + 1] THEN 0 ELSE costRep)
        c1  == p1[i2 + 1] + costDel
        c0b == IF c1 < c0a THEN c1 ELSE c0a
        c2  == p2[i2] + costIns
        c0  == IF c2 < c0b THEN c2 ELSE c0b
    IN LevInner(word1, word2, i1, i2 + 1, p1, [p2 EXCEPT ![i2 + 1] = c0],
                costIns, costRep, costDel)

RECURSIVE LevOuter(_, _, _, _, _, _, _, _)
LevOuter(word1, word2, i1, p1, p2, costIns, costRep, costDel) ==
  IF i1 >= Len(word1) THEN p1[Len(word2)]
  ELSE
    LET p2a == [p2 EXCEPT ![0] = p1[0] + costDel]
        p2b == LevInner(word1, word2, i1, 0, p1, p2a, costIns, costRep, costDel)
    IN \* tmp = p1; p1 = p2; p2 = tmp
       LevOuter(word1, word2, i1 + 1, p2b, p1, costIns, costRep, costDel)

_levenshtein(word1, word2, costIns, costRep, costDel) ==
  IF word1 = word2 THEN 0
  ELSE IF Len(word1) = 0 THEN Len(word2) * costIns
  ELSE IF Len(word2) = 0 THEN Len(word1) * costDel
  ELSE LevOuter(word1, word2, 0,
                [i2 \in 0..Len(word2) |-> i2 * costIns],
                [i2 \in 0..Len(word2) |-> 0],
                costIns, costRep, costDel)

\* this._levenshtein(queryWord, childWord): the costs default to 1.
Distance(queryWord, childWord) == _levenshtein(queryWord, childWord, 1, 1, 1)

-----------------------------------------------------------------------------
(* The phrase tree. *)

\* new Node(): the root, with no documents and no children.
EmptyTree == (<<>> :> {})

\* node.childrenByWord, as the set of child nodes of `node` in tree t.
childrenByWord(t, node) ==
  {c \in DOMAIN t : Len(c) = Len(node) + 1 /\ SubSeq(c, 1, Len(node)) = node}

RECURSIVE _buildPhraseTree(_, _, _, _, _)

\* _buildPhraseTree that assigns child.documents = new Set([doc]) instead of
\* adding doc to the set the child already has.
_buildPhraseTree_Overwrites(t, node, doc, phrase, wordIndex) ==
  IF Len(phrase) = wordIndex THEN t
  ELSE
    LET word  == toLocaleLowerCase(phrase[wordIndex + 1])
        child == Append(node, word)
        t1    == IF child \in DOMAIN t THEN t ELSE t @@ (child :> {})
        t2    == [t1 EXCEPT ![child] = {doc}]
    IN _buildPhraseTree(t2, child, doc, phrase, wordIndex + 1)

_buildPhraseTree(t, node, doc, phrase, wordIndex) ==
  IF Len(phrase) = wordIndex THEN t
  ELSE
    LET word  == toLocaleLowerCase(phrase[wordIndex + 1])
        child == Append(node, word)
        t1    == IF child \in DOMAIN t THEN t ELSE t @@ (child :> {})
        t2    == [t1 EXCEPT ![child] = @ \cup {doc}]
    IN _buildPhraseTree(t2, child, doc, phrase, wordIndex + 1)

\* indexOf that finds the last occurrence (lastIndexOf).
indexOf_LastOccurrence(phrase, triggerWord) ==
  IF \E i \in 1..Len(phrase) : phrase[i] = triggerWord
  THEN (CHOOSE i \in 1..Len(phrase) :
          /\ phrase[i] = triggerWord
          /\ \A j \in (i + 1)..Len(phrase) : phrase[j] # triggerWord) - 1
  ELSE -1

\* phrase.indexOf(triggerWord), 0-based; -1 when absent.
indexOf(phrase, triggerWord) ==
  IF \E i \in 1..Len(phrase) : phrase[i] = triggerWord
  THEN (CHOOSE i \in 1..Len(phrase) :
          /\ phrase[i] = triggerWord
          /\ \A j \in 1..(i - 1) : phrase[j] # triggerWord) - 1
  ELSE -1

\* variationPhrase.splice(index, 1, ...words)
splice(phrase, index, words) ==
  SubSeq(phrase, 1, index) \o words \o SubSeq(phrase, index + 2, Len(phrase))

\* The inner loop of addDocument over one trigger's replacements.
RECURSIVE VariationPhrases(_, _, _, _)
VariationPhrases(phrase, index, variations, k) ==
  IF k > Len(variations) THEN <<>>
  ELSE <<splice(phrase, index, split(variations[k]))>>
         \o VariationPhrases(phrase, index, variations, k + 1)

\* The list `phrases` addDocument builds for one phrase: the phrase itself,
\* then, for each entry of the variations map in order whose trigger word is
\* in the phrase, one phrase per replacement.
RECURSIVE ExpandFrom(_, _, _)
ExpandFrom(phrase, table, e) ==
  IF e > Len(table) THEN <<>>
  ELSE
    LET index == indexOf(phrase, table[e].triggerWord)
    IN (IF index >= 0
        THEN VariationPhrases(phrase, index, table[e].variations, 1)
        ELSE <<>>)
       \o ExpandFrom(phrase, table, e + 1)

PhraseList(phraseStr, table) ==
  LET phrase == Tokenize(phraseStr)
  IN <<phrase>> \o ExpandFrom(phrase, table, 1)

RECURSIVE AddPhrases(_, _, _, _)
AddPhrases(t, doc, phrases, k) ==
  IF k > Len(phrases) THEN t
  ELSE AddPhrases(_buildPhraseTree(t, <<>>, doc, phrases[k], 0),
                  doc, phrases, k + 1)

\* The loop of addDocument over doc.phrases.
RECURSIVE AddPhraseStrs(_, _, _, _)
AddPhraseStrs(t, doc, table, k) ==
  IF k > Len(doc.phrases) THEN t
  ELSE AddPhraseStrs(AddPhrases(t, doc, PhraseList(doc.phrases[k], table), 1),
                     doc, table, k + 1)

\* An array push instead of Set.prototype.add: a document added twice is
\* held twice.
SetAdd_Push(docs, doc) == Append(docs, doc)

\* Set.prototype.add on the insertion-ordered set of documents.
SetAdd(docs, doc) ==
  IF \E i \in 1..Len(docs) : docs[i] = doc THEN docs ELSE Append(docs, doc)

-----------------------------------------------------------------------------
(* Scoring. *)

\* minDistanceByDoc.set(doc, value)
MapSet(m, doc, value) ==
  IF doc \in DOMAIN m THEN [m EXCEPT ![doc] = value] ELSE m @@ (doc :> value)

Min(x, y) == IF x <= y THEN x ELSE y

\* The loop over node.documents at a node without children.
RECURSIVE RecordLeaf(_, _, _)
RecordLeaf(m, docs, phraseDistance) ==
  IF docs = {} THEN m
  ELSE
    LET doc == CHOOSE d \in docs : TRUE
    IN RecordLeaf(
         MapSet(m, doc,
                Min(phraseDistance,
                    IF doc \in DOMAIN m THEN m[doc] ELSE Infinity)),
         docs \ {doc}, phraseDistance)

\* _traverse on tree t with threshold thr.  The loop over childrenByWord is
\* TraverseChildren; the children are visited in some order, and the map
\* only ever takes minima, so the order does not show in the result.
RECURSIVE _traverse(_, _, _, _, _, _, _)
RECURSIVE TraverseChildren(_, _, _, _, _, _, _)

\* _traverse that also records a match at a node with children once the
\* query words are used up.
_traverse_RecordsWhenExhausted(t, thr, queryWords, node, minDistanceByDoc, queryWordsIndex, phraseDistance) ==
  IF childrenByWord(t, node) = {}
  THEN RecordLeaf(minDistanceByDoc, t[node], phraseDistance)
  ELSE IF queryWordsIndex = Len(queryWords)
  THEN RecordLeaf(minDistanceByDoc, t[node], phraseDistance)
  ELSE TraverseChildren(t, thr, queryWords, childrenByWord(t, node),
                        minDistanceByDoc, queryWordsIndex, phraseDistance)

\* _traverse that records a match at a childless node only when the query
\* has no words left.
_traverse_RequiresAllWordsUsed(t, thr, queryWords, node, minDistanceByDoc, queryWordsIndex, phraseDistance) ==
  IF childrenByWord(t, node) = {}
  THEN IF queryWordsIndex = Len(queryWords)
       THEN RecordLeaf(minDistanceByDoc, t[node], phraseDistance)
       ELSE minDistanceByDoc
  ELSE IF queryWordsIndex = Len(queryWords) THEN minDistanceByDoc
  ELSE TraverseChildren(t, thr, queryWords, childrenByWord(t, node),
                        minDistanceByDoc, queryWordsIndex, phraseDistance)

_traverse(t, thr, queryWords, node, minDistanceByDoc, queryWordsIndex, phraseDistance) ==
  IF childrenByWord(t, node) = {}
  THEN RecordLeaf(minDistanceByDoc, t[node], phraseDistance)
  ELSE IF queryWordsIndex = Len(queryWords) THEN minDistanceByDoc
  ELSE TraverseChildren(t, thr, queryWords, childrenByWord(t, node),
                        minDistanceByDoc, queryWordsIndex, phraseDistance)

\* TraverseChildren with the comparison distance < distanceThreshold.
TraverseChildren_Strict(t, thr, queryWords, children, minDistanceByDoc, queryWordsIndex, phraseDistance) ==
  IF children = {} THEN minDistanceByDoc
  ELSE
    LET child     == CHOOSE c \in children : TRUE
        queryWord == queryWords[queryWordsIndex + 1]
        childWord == child[Len(child)]
        distance  == Distance(queryWord, childWord)
        m1 == IF distance < thr
              THEN _traverse(t, thr, queryWords, child, minDistanceByDoc,
                             queryWordsIndex + 1, phraseDistance + distance)
              ELSE minDistanceByDoc
    IN TraverseChildren(t, thr, queryWords, children \ {child}, m1,
                        queryWordsIndex, phraseDistance)

\* TraverseChildren with the threshold test off by one.
TraverseChildren_OffByOne(t, thr, queryWords, children, minDistanceByDoc, queryWordsIndex, phraseDistance) ==
  IF children = {} THEN minDistanceByDoc
  ELSE
    LET child     == CHOOSE c \in children : TRUE
        queryWord == queryWords[queryWordsIndex + 1]
        childWord == child[Len(child)]
        distance  == Distance(queryWord, childWord)
        m1 == IF distance <= thr + 1
              THEN _traverse(t, thr, queryWords, child, minDistanceByDoc,
                             queryWordsIndex + 1, phraseDistance + distance)
              ELSE minDistanceByDoc
    IN TraverseChildren(t, thr, queryWords, children \ {child}, m1,
                        queryWordsIndex, phraseDistance)

\* TraverseChildren with the threshold applied to the running total.
TraverseChildren_Cumulative(t, thr, queryWords, children, minDistanceByDoc, queryWordsIndex, phraseDistance) ==
  IF children = {} THEN minDistanceByDoc
  ELSE
    LET child     == CHOOSE c \in children : TRUE
        queryWord == queryWords[queryWordsIndex + 1]
        childWord == child[Len(child)]
        distance  == Distance(queryWord, childWord)
        m1 == IF phraseDistance + distance <= thr
              THEN _traverse(t, thr, queryWords, child, minDistanceByDoc,
                             queryWordsIndex + 1, phraseDistance + distance)
              ELSE minDistanceByDoc
    IN TraverseChildren(t, thr, queryWords, children \ {child}, m1,
                        queryWordsIndex, phraseDistance)

TraverseChildren(t, thr, queryWords, children, minDistanceByDoc, queryWordsIndex, phraseDistance) ==
  IF children = {} THEN minDistanceByDoc
  ELSE
    LET child     == CHOOSE c \in children : TRUE
        queryWord == queryWords[queryWordsIndex + 1]
        childWord == child[Len(child)]
        distance  == Distance(queryWord, childWord)
        m1 == IF distance <= thr
              THEN _traverse(t, thr, queryWords, child, minDistanceByDoc,
                             queryWordsIndex + 1, phraseDistance + distance)
              ELSE minDistanceByDoc
    IN TraverseChildren(t, thr, queryWords, children \ {child}, m1,
                        queryWordsIndex, phraseDistance)

\* The comparator (a, b) => a.score - b.score as Array.prototype.sort reads
\* it: Infinity - Infinity is NaN, which sort treats as +0.
SortCompare(a, b) ==
  IF a.score = Infinity /\ b.score = Infinity THEN 0
  ELSE IF a.score = Infinity THEN 1
  ELSE IF b.score = Infinity THEN -1
  ELSE a.score - b.score

\* Array.prototype.sort is stable: an element goes after every element that
\* does not compare greater than it.
RECURSIVE InsertSorted(_, _)
InsertSorted(sorted, x) ==
  IF sorted = <<>> THEN <<x>>
  ELSE IF SortCompare(Head(sorted), x) > 0 THEN <<x>> \o sorted
  ELSE <<Head(sorted)>> \o InsertSorted(Tail(sorted), x)

\* sort that leaves the array in insertion order.
sort_Unsorted(results) == results

RECURSIVE sort(_)
sort(results) ==
  IF results = <<>> THEN <<>>
  ELSE InsertSorted(sort(SubSeq(results, 1, Len(results) - 1)),
                    results[Len(results)])

\* The array score pushes, one entry per document in insertion order.
Results(docs, minDistanceByDoc) ==
  [i \in 1..Len(docs) |->
     [document |-> docs[i],
      score    |-> IF docs[i] \in DOMAIN minDistanceByDoc
                   THEN minDistanceByDoc[docs[i]]
                   ELSE Infinity]]

EmptyMap == [d \in {} |-> 0]

\* The value score(queryString) returns on a scorer with the given fields.
ScoreOf(docs, t, thr, queryString) ==
  LET queryWords       == Tokenize(queryString)
      minDistanceByDoc == _traverse(t, thr, queryWords, <<>>, EmptyMap, 0, 0)
  IN sort(Results(docs, minDistanceByDoc))

-----------------------------------------------------------------------------
(* The inputs: words, strings, variation maps, document objects, queries. *)

Sp == <<" ">>

Wa == <<"a">>
Wb == <<"b">>
Wbb == <<"b", "b">>
Wfirefox == <<"f", "i", "r", "e", "f", "o", "x">>
Wfire == <<"f", "i", "r", "e">>
Wfox == <<"f", "o", "x">>
Wupdate == <<"u", "p", "d", "a", "t", "e">>
Wupdaet == <<"u", "p", "d", "a", "e", "t">>
Wupdte == <<"u", "p", "d", "t", "e">>
Wfirfox == <<"f", "i", "r", "f", "o", "x">>

\* The strings "a", "a b", "b", " A  bb ", "", "update firefox" and
\* "firefox update".
StrA == Wa
StrAB == Wa \o Sp \o Wb
StrB == Wb
StrMixed == Sp \o <<"A">> \o Sp \o Sp \o Wbb \o Sp
StrEmpty == <<>>
StrUpdateFirefox == Wupdate \o Sp \o Wfirefox
StrFirefoxUpdate == Wfirefox \o Sp \o Wupdate

\* The variations maps a scorer is constructed with: none (the default);
\* "a" -> ["a b"], "b" -> ["bb", " b"]; and "firefox" -> ["fire fox"].
VariationTables ==
  { <<>>,
    << [triggerWord |-> Wa, variations |-> <<StrAB>>],
       [triggerWord |-> Wb, variations |-> <<Wbb, Sp \o Wb>>] >>,
    << [triggerWord |-> Wfirefox, variations |-> <<Wfire \o Sp \o Wfox>>] >> }

\* The document objects addDocument is called with.  The last one holds two
\* of the phrases of DOCUMENTS.update in background.js.
DocPool ==
  { [id |-> "a",       phrases |-> <<StrA>>],
    [id |-> "ab",      phrases |-> <<StrAB>>],
    [id |-> "mixed",   phrases |-> <<StrB, StrMixed>>],
    [id |-> "nothing", phrases |-> <<>>],
    [id |-> "empty",   phrases |-> <<StrEmpty>>],
    [id |-> "update",  phrases |-> <<StrFirefoxUpdate, StrUpdateFirefox>>] }

PoolPhraseStrs ==
  UNION {{d.phrases[k] : k \in 1..Len(d.phrases)} : d \in DocPool}

\* The query strings score is called with: every phrase string verbatim,
\* and "  ", "bb", "b a", "a bb", "a b b", "a b update firefox",
\* "updaet firfox", "updte firfox", "fire fox update".
Queries ==
  PoolPhraseStrs \cup
  { Sp \o Sp,
    Wbb,
    Wb \o Sp \o Wa,
    Wa \o Sp \o Wbb,
    Wa \o Sp \o Wb \o Sp \o Wb,
    Wupdaet \o Sp \o Wfirfox,
    Wupdte \o Sp \o Wfirfox,
    Wfire \o Sp \o Wfox \o Sp \o Wupdate }

-----------------------------------------------------------------------------
(* The state machine. *)

\* No call has returned yet.
NoCall == [op |-> "new", queryString |-> <<>>, results |-> <<>>]

\* new QueryScorer({ distanceThreshold, variations })
Init ==
  /\ _distanceThreshold \in 0..MaxThreshold
  /\ _variations \in VariationTables
  /\ _documents = <<>>
  /\ _rootNode = EmptyTree
  /\ ret = NoCall
  /\ OthersIdle

\* addDocument that returns early for a document whose id is missing or
\* empty.
addDocument_ChecksId(doc) ==
  IF doc.id \in {undefined, ""}
  THEN /\ ret' = [op |-> "addDocument", queryString |-> <<>>,
                  results |-> <<>>]
       /\ UNCHANGED <<_distanceThreshold, _variations, _documents, _rootNode>>
  ELSE /\ _documents' = SetAdd(_documents, doc)
       /\ _rootNode' = AddPhraseStrs(_rootNode, doc, _variations, 1)
       /\ ret' = [op |-> "addDocument", queryString |-> <<>>,
                  results |-> <<>>]
       /\ UNCHANGED <<_distanceThreshold, _variations>>

addDocument(doc) ==
  /\ _documents' = SetAdd(_documents, doc)
  /\ _rootNode' = AddPhraseStrs(_rootNode, doc, _variations, 1)
  /\ ret' = [op |-> "addDocument", queryString |-> <<>>, results |-> <<>>]
  /\ UNCHANGED <<_distanceThreshold, _variations>>

\* score that sorts the document list itself, so that this._documents
\* takes the order of the returned array.
score_SortsDocuments(queryString) ==
  LET results == ScoreOf(_documents, _rootNode, _distanceThreshold,
                         queryString)
  IN /\ ret' = [op |-> "score", queryString |-> queryString,
                results |-> results]
     /\ _documents' = [i \in 1..Len(results) |-> results[i].document]
     /\ UNCHANGED <<_distanceThreshold, _variations, _rootNode>>

score(queryString) ==
  /\ ret' = [op |-> "score", queryString |-> queryString,
             results |-> ScoreOf(_documents, _rootNode, _distanceThreshold,
                                 queryString)]
  /\ UNCHANGED <<_distanceThreshold, _variations, _documents, _rootNode>>

AddDocumentStep ==
  \E doc \in DocPool :
    /\ \/ Len(_documents) < MaxDocs
       \/ \E i \in 1..Len(_documents) : _documents[i] = doc
    /\ addDocument(doc)
    /\ UNCHANGED otherVars

ScoreStep ==
  \E queryString \in Queries : score(queryString) /\ UNCHANGED otherVars

Next == AddDocumentStep \/ ScoreStep

Spec == Init /\ [][Next]_vars

-----------------------------------------------------------------------------
(* What the claims speak of. *)

Scored == ret.op = "score"

DocSet == {_documents[i] : i \in 1..Len(_documents)}

\* The word sequences registered for doc: for each of its phrase strings,
\* the original and its variation phrases, in lower case.
RegisteredPhrases(doc) ==
  UNION { { LET P == PhraseList(doc.phrases[k], _variations)[j]
            IN [i \in 1..Len(P) |-> toLocaleLowerCase(P[i])]
            : j \in 1..Len(PhraseList(doc.phrases[k], _variations)) }
          : k \in 1..Len(doc.phrases) }

\* The query starts with the phrase, word for word within the threshold.
QueryMatches(queryWords, P) ==
  /\ Len(queryWords) >= Len(P)
  /\ \A i \in 1..Len(P) : Distance(queryWords[i], P[i]) <= _distanceThreshold

RECURSIVE TotalDistance(_, _, _)
TotalDistance(queryWords, P, n) ==
  IF n = 0 THEN 0
  ELSE TotalDistance(queryWords, P, n - 1) + Distance(queryWords[n], P[n])

\* The minimum of the total distances of the phrases in Ps that the query
\* matches; Infinity when it matches none.
MinTotal(queryWords, Ps) ==
  LET totals == { TotalDistance(queryWords, P, Len(P)) :
                    P \in {Q \in Ps : QueryMatches(queryWords, Q)} }
  IN IF totals = {} THEN Infinity
     ELSE CHOOSE x \in totals : \A y \in totals : x <= y

\* The score the returned array gives doc.
ScoreIn(results, doc) ==
  LET i == CHOOSE j \in 1..Len(results) : results[j].document = doc
  IN results[i].score

\* C1: score(q) gives every document the minimum, over the phrases
\* registered for it that q matches, of the total edit distance, and
\* Infinity iff q matches none of its phrases.
C1_ScoreIsMinOverMatchedPhrases ==
  Scored =>
    \A i \in 1..Len(ret.results) :
      ret.results[i].score =
        MinTotal(Tokenize(ret.queryString),
                 RegisteredPhrases(ret.results[i].document))


\* The phrase strings of doc, as passed to addDocument.
PhraseStrsOf(doc) == {doc.phrases[k] : k \in 1..Len(doc.phrases)}

\* C2: when the query is a phrase string registered verbatim for a
\* document, score gives that document the score 0, whatever else is
\* registered.
C2_VerbatimPhraseScoresZero ==
  Scored =>
    \A doc \in DocSet :
      ret.queryString \in PhraseStrsOf(doc) => ScoreIn(ret.results, doc) = 0

\* C3: score on an empty or all-whitespace query gives every registered
\* document the score Infinity.
C3_BlankQueryMatchesNothing ==
  (Scored /\ trim(ret.queryString) = <<>>) =>
    \A i \in 1..Len(ret.results) : ret.results[i].score = Infinity

DocUpdate == CHOOSE d \in DocPool : d.id = "update"

StrUpdaetFirfox == Wupdaet \o Sp \o Wfirfox

\* C4 as claimed: with distanceThreshold 1 the query "updaet firfox" gives
\* the document with the phrase "update firefox" the finite score 1 + 1.
C4_Claimed_TransposedQueryMatches ==
  (/\ Scored
   /\ _distanceThreshold = 1
   /\ ret.queryString = StrUpdaetFirfox
   /\ DocUpdate \in DocSet)
  => ScoreIn(ret.results, DocUpdate) = 2

\* C4 as amended: "updaet" is at Levenshtein distance 2 from "update" (a
\* transposition is two edits) and "firfox" at distance 1 from "firefox",
\* so the query "updaet firfox" gives the document Infinity when
\* distanceThreshold is below 2 (the default 1 included) and 2 + 1 = 3
\* otherwise.
C4_TransposedQueryNeedsThresholdTwo ==
  (/\ Scored
   /\ ret.queryString = StrUpdaetFirfox
   /\ DocUpdate \in DocSet)
  => /\ Distance(Wupdaet, Wupdate) = 2
     /\ Distance(Wfirfox, Wfirefox) = 1
     /\ ScoreIn(ret.results, DocUpdate) =
          (IF _distanceThreshold >= 2 THEN 3 ELSE Infinity)

\* C4's case: the query was scored with the default threshold against the
\* document.
C4_Witness ==
  /\ Scored
  /\ _distanceThreshold = 1
  /\ ret.queryString = StrUpdaetFirfox
  /\ DocUpdate \in DocSet
  /\ ScoreIn(ret.results, DocUpdate) = Infinity

\* The query's words equal the phrase's words, position by position.
ExactlyMatches(queryWords, P) ==
  /\ Len(queryWords) >= Len(P)
  /\ \A i \in 1..Len(P) : Distance(queryWords[i], P[i]) = 0

\* The extra trailing words "a", "b", "bb" and "b b".
TrailingWords == {Wa, Wb, Wbb, Wb \o Sp \o Wb}

\* C5: when the (non-blank) query Q exactly matches a phrase registered for
\* a document, score(Q + W) gives the document the same score as score(Q)
\* for every sequence W of extra trailing words.
C5_TrailingWordsKeepExactMatch ==
  (Scored /\ trim(ret.queryString) # <<>>) =>
    \A doc \in DocSet :
      (\E P \in RegisteredPhrases(doc) :
         ExactlyMatches(Tokenize(ret.queryString), P))
      => \A W \in TrailingWords :
           ScoreIn(ScoreOf(_documents, _rootNode, _distanceThreshold,
                           ret.queryString \o Sp \o W), doc)
             = ScoreIn(ret.results, doc)

\* The word sequences C6 speaks of for phrase string s: the phrase itself
\* and, for every variations entry whose trigger is a word of the phrase
\* and every replacement of it, the phrase with an occurrence of the
\* trigger replaced by the replacement's words.
C6_Queries(s) ==
  LET phrase == Tokenize(s)
      triggered == {e \in 1..Len(_variations) :
                      \E i \in 1..Len(phrase) :
                        phrase[i] = _variations[e].triggerWord}
  IN IF triggered = {} THEN {}
     ELSE {phrase} \cup
          { splice(phrase, i - 1, Tokenize(_variations[e].variations[r])) :
              <<e, i, r>> \in
                { x \in triggered \X (1..Len(phrase)) \X (1..2) :
                    /\ phrase[x[2]] = _variations[x[1]].triggerWord
                    /\ x[3] <= Len(_variations[x[1]].variations) } }

\* C6: for a phrase of a document that holds a variations trigger, the
\* original phrase and the phrase with the trigger replaced by a replacement
\* both get the document a finite score.
C6_VariationsScoreFinite ==
  Scored =>
    \A doc \in DocSet :
      \A s \in PhraseStrsOf(doc) :
        Tokenize(ret.queryString) \in C6_Queries(s)
          => ScoreIn(ret.results, doc) < Infinity


\* The nodes without children that the tree holds below the root.
Leaves ==
  {p \in DOMAIN _rootNode : p # <<>> /\ childrenByWord(_rootNode, p) = {}}

\* The part of the tree on the path from the root to node L.
PathTree(L) ==
  [p \in {SubSeq(L, 1, n) : n \in 0..Len(L)} |-> _rootNode[p]]

\* The total distance _traverse records for the query on the path to leaf
\* L alone; Infinity when the path does not match.
PathDistance(queryWords, L) ==
  LET m == _traverse(PathTree(L), _distanceThreshold, queryWords, <<>>,
                     EmptyMap, 0, 0)
  IN IF DOMAIN m = {} THEN Infinity ELSE m[CHOOSE d \in DOMAIN m : TRUE]

MinOf(S) == CHOOSE x \in S : \A y \in S : x <= y

\* The words a query word is replaced by: "a", "b", "bb", "" and "updte".
ReplacementWords == {Wa, Wb, Wbb, <<>>, Wupdte}

\* C7: a document's score is the least total over its phrase paths; on a
\* path that matches the query, replacing one query word w by w' changes
\* the path's total by Distance(w', phrase word) - Distance(w, phrase word)
\* when w' is within the threshold of the phrase word, however large the
\* total gets, and the path stops matching when it is not.
C7_PerWordDistanceAndThreshold ==
  Scored =>
    LET queryWords == Tokenize(ret.queryString)
    IN /\ \A doc \in DocSet :
            ScoreIn(ret.results, doc) =
              MinOf({Infinity} \cup
                    {PathDistance(queryWords, L) :
                       L \in {K \in Leaves : doc \in _rootNode[K]}})
       /\ \A L \in Leaves :
            PathDistance(queryWords, L) < Infinity =>
              \A i \in 1..Len(L) : \A w \in ReplacementWords :
                PathDistance([queryWords EXCEPT ![i] = w], L) =
                  (IF Distance(w, L[i]) <= _distanceThreshold
                   THEN PathDistance(queryWords, L)
                          - Distance(queryWords[i], L[i])
                          + Distance(w, L[i])
                   ELSE Infinity)

\* C7 as claimed (for non-blank queries, and paths and replacements of
\* non-empty words): replacing one query word w by another word w' raises
\* the matching path's total by exactly Distance(w', phrase word) when w' is
\* within the threshold, and the path stops matching when it is not.
C7_Claimed_TotalRisesByNewDistance ==
  (Scored /\ trim(ret.queryString) # <<>>) =>
    LET queryWords == Tokenize(ret.queryString)
    IN \A L \in {K \in Leaves : \A n \in 1..Len(K) : K[n] # <<>>} :
         PathDistance(queryWords, L) < Infinity =>
           \A i \in 1..Len(L) :
             \A w \in ReplacementWords \ {<<>>, queryWords[i]} :
               PathDistance([queryWords EXCEPT ![i] = w], L) =
                 (IF Distance(w, L[i]) <= _distanceThreshold
                  THEN PathDistance(queryWords, L) + Distance(w, L[i])
                  ELSE Infinity)

\* C7's case: a path matches the scored query with a total above the
\* threshold, every word being within it, and some replacement word is
\* beyond the threshold of a phrase word.
C7_Witness ==
  /\ Scored
  /\ \E L \in Leaves :
       /\ PathDistance(Tokenize(ret.queryString), L) < Infinity
       /\ PathDistance(Tokenize(ret.queryString), L) > _distanceThreshold
       /\ \E doc \in _rootNode[L] :
            ScoreIn(ret.results, doc) =
              PathDistance(Tokenize(ret.queryString), L)
       /\ \E i \in 1..Len(L) : \E w \in ReplacementWords :
            Distance(w, L[i]) > _distanceThreshold

\* C8: the returned array is ordered by non-decreasing score, every score
\* is at least 0, and every Infinity entry comes after every finite one.
C8_ResultsSortedAscending ==
  Scored =>
    /\ \A i \in 1..Len(ret.results) : ret.results[i].score >= 0
    /\ \A i \in 1..Len(ret.results) : \A j \in (i + 1)..Len(ret.results) :
         /\ ret.results[i].score <= ret.results[j].score
         /\ ret.results[i].score = Infinity =>
              ret.results[j].score = Infinity

\* C8's case: the array holds a finite score before an Infinity one, and
\* the document that was registered second comes first.
C8_Witness ==
  /\ Scored
  /\ Len(ret.results) >= 2
  /\ ret.results[1].score < Infinity
  /\ ret.results[Len(ret.results)].score = Infinity
  /\ ret.results[1].document = _documents[2]

\* C9: score returns exactly one entry per distinct registered document;
\* a document that the traversal's map does not hold, and so a document
\* without phrases, has the score Infinity.
C9_OneEntryPerDocument ==
  Scored =>
    LET m == _traverse(_rootNode, _distanceThreshold,
                       Tokenize(ret.queryString), <<>>, EmptyMap, 0, 0)
    IN /\ Len(ret.results) = Cardinality(DocSet)
       /\ {ret.results[i].document : i \in 1..Len(ret.results)} = DocSet
       /\ \A i \in 1..Len(ret.results) :
            /\ ret.results[i].document \notin DOMAIN m =>
                 ret.results[i].score = Infinity
            /\ ret.results[i].document.phrases = <<>> =>
                 ret.results[i].score = Infinity

\* C9's case: a document without phrases and a document that matches the
\* query are both registered and scored.
C9_Witness ==
  /\ Scored
  /\ Len(ret.results) = 2
  /\ \E i \in 1..2 : ret.results[i].document.phrases = <<>>
  /\ \E i \in 1..2 : ret.results[i].score < Infinity

\* C10: a score call leaves the phrase tree and the document set as they
\* were, and a score call that follows a score call with the same query
\* returns the same array.
C10_ScoreIsReadOnly ==
  [][ret'.op = "score" =>
       /\ _rootNode' = _rootNode
       /\ _documents' = _documents
       /\ (Scored /\ ret'.queryString = ret.queryString) =>
            ret'.results = ret.results]_vars

\* C10's case: score has returned on a scorer with two documents, the
\* second-registered one ranked first.
C10_Witness ==
  /\ Scored
  /\ Len(_documents) = 2
  /\ ret.results[1].document = _documents[2]
  /\ ret.results[1].score < ret.results[2].score

-----------------------------------------------------------------------------
(* The phrase tree as a data structure. *)

\* The word sequences registered for the documents of the scorer.
AllRegistered == UNION {RegisteredPhrases(d) : d \in DocSet}

\* The documents owning word sequence P as one of their phrases.
Owners(P) == {d \in DocSet : P \in RegisteredPhrases(d)}

StrictPrefix(P, Q) == Len(P) < Len(Q) /\ SubSeq(Q, 1, Len(P)) = P

NonRootNodes == DOMAIN _rootNode \ {<<>>}

\* C13 as stated: a non-root node has no children if and only if a
\* registered phrase ends exactly at it, and a childless node's documents
\* are exactly the owners of its word sequence.
C13_Claimed_ChildlessIffPhraseEnd ==
  \A node \in NonRootNodes :
    /\ childrenByWord(_rootNode, node) = {} <=> node \in AllRegistered
    /\ childrenByWord(_rootNode, node) = {} =>
         _rootNode[node] = Owners(node)

\* C13: every registered phrase is a node of the tree; a non-root node
\* without children is the end of a registered phrase, and a node where a
\* registered phrase ends has children exactly when that phrase is a strict
\* prefix of another registered phrase; the documents of a childless node
\* are exactly the owners of its word sequence.
C13_ChildlessImpliesPhraseEnd ==
  /\ AllRegistered \subseteq NonRootNodes
  /\ \A node \in NonRootNodes :
       /\ childrenByWord(_rootNode, node) = {} => node \in AllRegistered
       /\ node \in AllRegistered =>
            (childrenByWord(_rootNode, node) # {} <=>
               \E P \in AllRegistered : StrictPrefix(node, P))
       /\ childrenByWord(_rootNode, node) = {} =>
            _rootNode[node] = Owners(node)

\* C13's case: a phrase ends at a node that has children, and a childless
\* node is shared by two documents.
C13_Witness ==
  /\ \E node \in NonRootNodes :
       node \in AllRegistered /\ childrenByWord(_rootNode, node) # {}
  /\ \E node \in NonRootNodes :
       /\ childrenByWord(_rootNode, node) = {}
       /\ Cardinality(_rootNode[node]) = 2

-----------------------------------------------------------------------------
(* Construction and addDocument with arguments the code does not check.   *)

\* The distanceThreshold values the constructor is called with: two
\* negative ones and the default.
CtorThresholds == {-2, -1, 1}

\* Documents whose id is the empty string or missing.
BadIdDocs ==
  { [id |-> "",        phrases |-> <<StrAB>>],
    [id |-> undefined, phrases |-> <<StrB>>] }

InputDocPool == {[id |-> "a", phrases |-> <<StrA>>]} \cup BadIdDocs

\* Before `new QueryScorer(...)` has run there is no scorer; the fields hold
\* the values of an empty one.
NoScorer == [op |-> "none", queryString |-> <<>>, results |-> <<>>]

InitNoScorer ==
  /\ _distanceThreshold = 1
  /\ _variations = <<>>
  /\ _documents = <<>>
  /\ _rootNode = EmptyTree
  /\ ret = NoScorer
  /\ OthersIdle

\* new QueryScorer({ distanceThreshold, variations })
constructor(distanceThreshold, variations) ==
  /\ _distanceThreshold' = distanceThreshold
  /\ _variations' = variations
  /\ _documents' = <<>>
  /\ _rootNode' = EmptyTree
  /\ ret' = NoCall

ConstructStep ==
  /\ ret.op = "none"
  /\ \E distanceThreshold \in CtorThresholds, variations \in VariationTables :
       constructor(distanceThreshold, variations) /\ UNCHANGED otherVars

AddAnyDocumentStep ==
  /\ ret.op # "none"
  /\ \E doc \in InputDocPool : addDocument(doc) /\ UNCHANGED otherVars

ScoreAnyStep == ret.op # "none" /\ ScoreStep

NextInputs == ConstructStep \/ AddAnyDocumentStep \/ ScoreAnyStep

SpecInputs == InitNoScorer /\ [][NextInputs]_vars

\* C11 as stated: construction with a negative distanceThreshold fails, so
\* no scorer ever has a negative threshold.
C11_Claimed_NegativeThresholdRejected ==
  ret.op # "none" => _distanceThreshold >= 0

\* C11: the constructor stores a negative distanceThreshold as it is, and
\* the scorer so made matches nothing: score returns one entry per
\* document, each with the score Infinity, whatever the query.
C11_NegativeThresholdMatchesNothing ==
  (Scored /\ _distanceThreshold < 0) =>
    /\ Len(ret.results) = Len(_documents)
    /\ \A i \in 1..Len(ret.results) : ret.results[i].score = Infinity

\* C11's case: a scorer with a negative threshold has scored a query that
\* is verbatim a phrase of a registered document.
C11_Witness ==
  /\ Scored
  /\ _distanceThreshold < 0
  /\ \E d \in DocSet : ret.queryString \in PhraseStrsOf(d)

\* C12 as stated: addDocument with a document whose id is missing or empty
\* leaves the document set and the phrase tree unchanged.
C12_Claimed_BadIdRejected ==
  [][(\E doc \in BadIdDocs : addDocument(doc)) =>
       UNCHANGED <<_documents, _rootNode>>]_vars

\* C12: addDocument does not read the id: after it has been called with a
\* document whose id is missing or empty, the document is in the document
\* set and each of its phrases is a node of the tree holding the document.
C12_BadIdRegistered ==
  [][\A doc \in BadIdDocs :
       addDocument(doc) =>
         /\ \E i \in 1..Len(_documents') : _documents'[i] = doc
         /\ \A P \in RegisteredPhrases(doc) :
              P \in DOMAIN _rootNode' /\ doc \in _rootNode'[P]]_vars

\* C12's case: a document with an empty id and one without id are
\* registered, and score has returned a finite score for one of them.
C12_Witness ==
  /\ Scored
  /\ BadIdDocs \subseteq DocSet
  /\ \E i \in 1..Len(ret.results) :
       /\ ret.results[i].document \in BadIdDocs
       /\ ret.results[i].score < Infinity

-----------------------------------------------------------------------------
(* _levenshtein as a function of its five arguments. *)

\* Words are at most this long.
MaxWordLen == 3

LevAlphabet == {"a", "b"}

LevWords == UNION {[1..n -> LevAlphabet] : n \in 0..MaxWordLen}

\* The values costIns, costRep and costDel are drawn from (1 is the
\* default of each).
LevCosts == {1, 2}

\* A call of _levenshtein that has not returned yet.
LevCalls ==
  [op : {"call"}, word1 : LevWords, word2 : LevWords,
   costIns : LevCosts, costRep : LevCosts, costDel : LevCosts, value : {0}]

\* A default scorer about to run _levenshtein on some arguments.
InitLev ==
  /\ _distanceThreshold = 1
  /\ _variations = <<>>
  /\ _documents = <<>>
  /\ _rootNode = EmptyTree
  /\ ret \in LevCalls
  /\ OthersIdle

LevenshteinStep ==
  /\ ret.op = "call"
  /\ ret' = [ret EXCEPT
               !.op = "_levenshtein",
               !.value = _levenshtein(ret.word1, ret.word2, ret.costIns,
                                      ret.costRep, ret.costDel)]
  /\ UNCHANGED <<_distanceThreshold, _variations, _documents, _rootNode>>
  /\ UNCHANGED otherVars

NextLev == LevenshteinStep

SpecLev == InitLev /\ [][NextLev]_vars

Min3(x, y, z) == Min(x, Min(y, z))

\* The least total cost of insertions, substitutions and deletions that
\* turn w1 into w2, by cases on the first characters.
RECURSIVE EditDistance(_, _, _, _, _)
EditDistance(w1, w2, costIns, costRep, costDel) ==
  IF w1 = <<>> THEN Len(w2) * costIns
  ELSE IF w2 = <<>> THEN Len(w1) * costDel
  ELSE Min3(EditDistance(Tail(w1), w2, costIns, costRep, costDel) + costDel,
            EditDistance(w1, Tail(w2), costIns, costRep, costDel) + costIns,
            EditDistance(Tail(w1), Tail(w2), costIns, costRep, costDel)
              + (IF Head(w1) = Head(w2) THEN 0 ELSE costRep))

\* w2 is w1 with two adjacent distinct characters exchanged.
Transposed(w1, w2) ==
  /\ Len(w1) = Len(w2)
  /\ \E i \in 1..(Len(w1) - 1) :
       /\ w1[i] # w1[i + 1]
       /\ w2 = [w1 EXCEPT ![i] = w1[i + 1], ![i + 1] = w1[i]]

\* C14: _levenshtein returns the standard Levenshtein distance under the
\* given costs: 0 for identical words, |word2| * costIns for an empty
\* word1, |word1| * costDel for an empty word2, and 2 under the default
\* costs for a transposition of two adjacent distinct characters.
C14_LevenshteinIsStandard ==
  ret.op = "_levenshtein" =>
    /\ ret.value = EditDistance(ret.word1, ret.word2, ret.costIns,
                                ret.costRep, ret.costDel)
    /\ ret.word1 = ret.word2 => ret.value = 0
    /\ ret.word1 = <<>> => ret.value = Len(ret.word2) * ret.costIns
    /\ ret.word2 = <<>> => ret.value = Len(ret.word1) * ret.costDel
    /\ ( /\ ret.costIns = 1 /\ ret.costRep = 1 /\ ret.costDel = 1
         /\ Transposed(ret.word1, ret.word2) ) => ret.value = 2

\* C14's case: _levenshtein has returned 2 for "ab" and "ba" under the
\* default costs.
C14_Witness ==
  /\ ret.op = "_levenshtein"
  /\ ret.word1 = <<"a", "b">>
  /\ ret.word2 = <<"b", "a">>
  /\ ret.costIns = 1 /\ ret.costRep = 1 /\ ret.costDel = 1
  /\ ret.value = 2

-----------------------------------------------------------------------------
(* The earlier, flat QueryScorer (src/unnamed/part_001): _documentsByWord   *)
(* maps each word to the set of documents holding it.  A JavaScript Map is  *)
(* a sequence of [key, value] entries in insertion order, and a Set is a    *)
(* sequence without repetition.  A document object is a record [id, words]. *)
(* A score is the quotient sum / count, held as the pair [sum, count].      *)

\* At most this many documents with words are registered.
MaxLegacyDocs == 2

MapHas(m, k) == \E i \in 1..Len(m) : m[i].key = k

MapGet(m, k) == m[CHOOSE i \in 1..Len(m) : m[i].key = k].value

\* Map.prototype.set: a new key goes last, an old key keeps its place.
OrderedMapSet(m, k, v) ==
  IF MapHas(m, k)
  THEN [i \in 1..Len(m) |->
          IF m[i].key = k THEN [key |-> k, value |-> v] ELSE m[i]]
  ELSE Append(m, [key |-> k, value |-> v])

\* doc.words = doc.words.map(word => word.toLocaleLowerCase())
LowerWords(doc) ==
  [doc EXCEPT !.words = [i \in 1..Len(doc.words) |->
                           toLocaleLowerCase(doc.words[i])]]

\* The loop of the flat addDocument over doc.words, from word k on.
RECURSIVE AddWords(_, _, _)
AddWords(m, doc, k) ==
  IF k > Len(doc.words) THEN m
  ELSE
    LET word == doc.words[k]
        docs == IF MapHas(m, word) THEN MapGet(m, word) ELSE <<>>
    IN AddWords(OrderedMapSet(m, word, SetAdd(docs, doc)), doc, k + 1)

\* The loop over the documents of one word that forgets Math.min: the
\* distance of the word seen last stands.
RECURSIVE MinOverDocs(_, _, _, _)
MinOverDocs_LastWins(minDistanceByDoc, docs, distance, j) ==
  IF j > Len(docs) THEN minDistanceByDoc
  ELSE MinOverDocs(OrderedMapSet(minDistanceByDoc, docs[j], distance),
                   docs, distance, j + 1)

\* for (let doc of docs) minDistanceByDoc.set(doc, Math.min(...))
MinOverDocs(minDistanceByDoc, docs, distance, j) ==
  IF j > Len(docs) THEN minDistanceByDoc
  ELSE
    LET doc == docs[j]
        old == IF MapHas(minDistanceByDoc, doc)
               THEN MapGet(minDistanceByDoc, doc) ELSE Infinity
    IN MinOverDocs(OrderedMapSet(minDistanceByDoc, doc, Min(distance, old)),
                   docs, distance, j + 1)

\* for (let [docWord, docs] of this._documentsByWord), from entry e on.
RECURSIVE MinDistanceByDoc(_, _, _, _)
MinDistanceByDoc(m, searchWord, minDistanceByDoc, e) ==
  IF e > Len(m) THEN minDistanceByDoc
  ELSE MinDistanceByDoc(
         m, searchWord,
         MinOverDocs(minDistanceByDoc, m[e].value,
                     Distance(searchWord, m[e].key), 1),
         e + 1)

\* for (let [doc, min] of minDistanceByDoc) sumByDoc.set(doc, min + ...)
RECURSIVE AddMinima(_, _, _)
AddMinima(sumByDoc, minDistanceByDoc, i) ==
  IF i > Len(minDistanceByDoc) THEN sumByDoc
  ELSE
    LET doc == minDistanceByDoc[i].key
        old == IF MapHas(sumByDoc, doc) THEN MapGet(sumByDoc, doc) ELSE 0
    IN AddMinima(OrderedMapSet(sumByDoc, doc, minDistanceByDoc[i].value + old),
                 minDistanceByDoc, i + 1)

\* for (let searchWord of searchWords), from word k on.
RECURSIVE SumByDoc(_, _, _, _)
SumByDoc(m, searchWords, sumByDoc, k) ==
  IF k > Len(searchWords) THEN sumByDoc
  ELSE SumByDoc(m, searchWords,
                AddMinima(sumByDoc,
                          MinDistanceByDoc(m, searchWords[k], <<>>, 1), 1),
                k + 1)

\* (a, b) => a.score - b.score on quotients: the sign of
\* a.sum / a.count - b.sum / b.count.
MeanCompare(a, b) == a.score.sum * b.score.count - b.score.sum * a.score.count

RECURSIVE InsertByMean(_, _)
InsertByMean(sorted, x) ==
  IF sorted = <<>> THEN <<x>>
  ELSE IF MeanCompare(Head(sorted), x) > 0 THEN <<x>> \o sorted
  ELSE <<Head(sorted)>> \o InsertByMean(Tail(sorted), x)

\* results.sort((a, b) => a.score - b.score), a stable sort.
RECURSIVE SortByMean(_)
SortByMean(results) ==
  IF results = <<>> THEN <<>>
  ELSE InsertByMean(SortByMean(SubSeq(results, 1, Len(results) - 1)),
                    results[Len(results)])

\* What the flat score returns for searchString on the map m.
MeanScoreOf(m, searchString) ==
  LET searchWords == Tokenize(searchString)
      sumByDoc    == SumByDoc(m, searchWords, <<>>, 1)
  IN SortByMean([i \in 1..Len(sumByDoc) |->
                   [document |-> sumByDoc[i].key,
                    score    |-> [sum   |-> sumByDoc[i].value,
                                  count |-> Len(searchWords)]]])

\* Documents with words of the scorer's test (browser_QueryScorer.js), a
\* document sharing words with them and written in capitals, and a document
\* without words.
LegacyDocPool ==
  { [id |-> "fruits", words |->
     <<<<"a", "p", "p", "l", "e">>,
     <<"p", "e", "a", "r">>,
     <<"b", "a", "n", "a", "n", "a">>,
     <<"o", "r", "a", "n", "g", "e">>>>],
    [id |-> "animals", words |->
     <<<<"b", "a", "d", "g", "e", "r">>,
     <<"h", "a", "m", "s", "t", "e", "r">>>>],
    [id |-> "capitals", words |->
     <<<<"B", "A", "n", "A", "n", "A">>,
     <<"B", "A", "d", "g", "e", "r">>>>],
    [id |-> "none", words |-> <<>>] }

\* The query strings of the flat score: queries after the test's, one in
\* capitals with surplus blanks, and the empty string.
LegacyQueries ==
  { <<"b", "a", "n", "a", "n", "a">>,
    <<"b", "a", "n", "a", "n">>,
    <<"b", "a", "n", "a">>,
    <<"b", "a", "n", "n", "a">>,
    <<"b", "a", "n", "a", "n", "a", " ", "a", "p", "p", "l", "e">>,
    <<"b", "a", "n", "a", "n", "a", " ", "a", "p", "p">>,
    <<"b", "a", "n", "a", "n", "a", " ", "a", "p">>,
    <<"b", "a", "d", "g", "e", "r", " ", "h", "a", "m", "s">>,
    <<"b", "a", "n", "a", "n", "a", " ", "b", "a", "d", "g", "e", "r">>,
    <<" ", " ", "B", "A", "n", "A", "n", "A", " ", " ", " ", "p", "e", "a", "r", " ">>,
    <<>> }

\* The documents held by the map.
LegacyDocs(m) ==
  UNION {{m[e].value[j] : j \in 1..Len(m[e].value)} : e \in 1..Len(m)}

\* A default phrase-tree scorer stands by unused; the flat scorer is new.
InitLegacy ==
  /\ _distanceThreshold = 1
  /\ _variations = <<>>
  /\ _documents = <<>>
  /\ _rootNode = EmptyTree
  /\ ret = NoCall
  /\ _documentsByWord = <<>>
  /\ BackgroundIdle

LegacyAddDocument(doc) ==
  /\ _documentsByWord' = AddWords(_documentsByWord, LowerWords(doc), 1)
  /\ ret' = [op |-> "addDocument", queryString |-> <<>>, results |-> <<>>]

LegacyScore(searchString) ==
  /\ ret' = [op |-> "score", queryString |-> searchString,
             results |-> MeanScoreOf(_documentsByWord, searchString)]
  /\ UNCHANGED _documentsByWord

LegacyAddDocumentStep ==
  \E doc \in LegacyDocPool :
    /\ \/ Cardinality(LegacyDocs(_documentsByWord)) < MaxLegacyDocs
       \/ LowerWords(doc) \in LegacyDocs(_documentsByWord)
    /\ LegacyAddDocument(doc)
    /\ UNCHANGED <<_distanceThreshold, _variations, _documents, _rootNode>>
    /\ UNCHANGED backgroundVars

LegacyScoreStep ==
  \E searchString \in LegacyQueries :
    /\ LegacyScore(searchString)
    /\ UNCHANGED <<_distanceThreshold, _variations, _documents, _rootNode>>
    /\ UNCHANGED backgroundVars

NextLegacy == LegacyAddDocumentStep \/ LegacyScoreStep

SpecLegacy == InitLegacy /\ [][NextLegacy]_vars

\* The cutoff the scorer's test keeps results under.
CUTOFF_SCORE == 1

\* The least edit distance between queryWord and a word of doc.
MinWordDistance(queryWord, doc) ==
  MinOf({Distance(queryWord, doc.words[k]) : k \in 1..Len(doc.words)})

RECURSIVE SumOfMinima(_, _, _)
SumOfMinima(searchWords, doc, n) ==
  IF n = 0 THEN 0
  ELSE SumOfMinima(searchWords, doc, n - 1)
         + MinWordDistance(searchWords[n], doc)

\* results.filter(result => result.score <= CUTOFF_SCORE), as documents.
Kept(results) ==
  { results[i].document :
      i \in {j \in 1..Len(results) :
               results[j].score.sum <= CUTOFF_SCORE * results[j].score.count} }

\* C15: the flat score returns one entry for every registered document that
\* has a word, its score the mean over the query words of the least edit
\* distance from the query word to a word of the document, in ascending
\* order of score; so under the cutoff 1 a one-word query keeps a document
\* iff one of its words is within distance 1, and a two-word query keeps it
\* iff the two least distances sum to at most 2.
C15_LegacyScoreIsMeanOfMinima ==
  Scored =>
    LET searchWords == Tokenize(ret.queryString)
        docs        == LegacyDocs(_documentsByWord)
    IN /\ Len(ret.results) = Cardinality(docs)
       /\ {ret.results[i].document : i \in 1..Len(ret.results)} = docs
       /\ \A i \in 1..Len(ret.results) :
            ret.results[i].score =
              [sum   |-> SumOfMinima(searchWords, ret.results[i].document,
                                     Len(searchWords)),
               count |-> Len(searchWords)]
       /\ \A i, j \in 1..Len(ret.results) :
            i < j => MeanCompare(ret.results[i], ret.results[j]) <= 0
       /\ Len(searchWords) = 1 =>
            \A d \in docs :
              d \in Kept(ret.results) <=>
                \E k \in 1..Len(d.words) :
                  Distance(searchWords[1], d.words[k]) <= 1
       /\ Len(searchWords) = 2 =>
            \A d \in docs :
              d \in Kept(ret.results) <=>
                MinWordDistance(searchWords[1], d)
                  + MinWordDistance(searchWords[2], d) <= 2

\* C15's case: a two-word query has been scored against two documents; one
\* has the mean exactly 1 and is kept, the other is dropped.
C15_Witness ==
  /\ Scored
  /\ Len(Tokenize(ret.queryString)) = 2
  /\ Len(ret.results) = 2
  /\ Cardinality(Kept(ret.results)) = 1
  /\ ret.results[1].score = [sum |-> 2, count |-> 2]

-----------------------------------------------------------------------------
(* background.js.  An async function runs without interruption up to an    *)
(* await of a browser call and resumes in a later step; an invocation that  *)
(* waits is an entry of behaviorCalls or surveyCalls.                      *)

BRANCHES == [CONTROL |-> "control", TREATMENT |-> "treatment"]

TIPS ==
  [NONE |-> "", CLEAR |-> "clear", REFRESH |-> "refresh",
   UPDATE_ASK |-> "update_ask", UPDATE_REFRESH |-> "update_refresh",
   UPDATE_RESTART |-> "update_restart", UPDATE_WEB |-> "update_web"]

\* One phrase of each list of DOCUMENTS, in the order of its keys.
DOCUMENTS ==
  << [id |-> "clear", phrases |-> <<<<"h", "o", "w", " ", "t", "o", " ", "c", "l", "e", "a", "r", " ", "c", "a", "c", "h", "e">>>>],
     [id |-> "refresh", phrases |-> <<<<"r", "e", "s", "e", "t", " ", "f", "i", "r", "e", "f", "o", "x">>>>],
     [id |-> "update", phrases |-> <<<<"m", "o", "z", "i", "l", "l", "a", " ", "u", "p", "d", "a", "t", "e">>>>] >>

\* The variations map queryScorer is constructed with.
BackgroundVariations ==
  << [triggerWord |-> Wfirefox,
      variations |-> <<<<"f", "i", "r", "e", " ", "f", "o", "x">>,
                       <<"f", "o", "x", " ", "f", "i", "r", "e">>,
                       <<"f", "o", "x", "f", "i", "r", "e">>>>],
     [triggerWord |-> <<"m", "o", "z", "i", "l", "l", "a">>,
      variations |-> <<<<"m", "o", "z", "i", "l", "a">>>>] >>

\* The search strings of the queries: "", the phrase of each document, and
\* "firefox", which no document matches.
SearchStrings ==
  { <<>>,
    <<"h", "o", "w", " ", "t", "o", " ", "c", "l", "e", "a", "r", " ", "c", "a", "c", "h", "e">>,
    <<"r", "e", "s", "e", "t", " ", "f", "i", "r", "e", "f", "o", "x">>,
    <<"m", "o", "z", "i", "l", "l", "a", " ", "u", "p", "d", "a", "t", "e">>,
    Wfirefox }

\* What getBrowserUpdateStatus resolves to: the statuses onBehaviorRequested
\* names and one it does not.
UpdateStatuses ==
  {"downloading", "staging", "readyForRestart", "downloadAndInstall",
   "noUpdatesFound", "checking", "unsupportedSystem"}

\* At most this many onBehaviorRequested invocations wait at an await.
MaxBehaviorCalls == 1

\* At most this many maybeOpenSurvey invocations wait at an await.
MaxSurveyCalls == 1

\* At most this many setTimeout callbacks are pending.
MaxTimers == 1

\* At most this many distinct tips are selected in one engagement.
MaxTipsShown == 1

\* The shown counts of a browser session add up to at most this.
MaxShown == 1

\* At most this many tips are picked in a browser session.
MaxPicked == 1

RemoveAt(seq, i) == SubSeq(seq, 1, i - 1) \o SubSeq(seq, i + 1, Len(seq))

\* browser.telemetry.keyedScalarAdd(name, key, 1) on one keyed scalar.
keyedScalarAdd(scalar, key) ==
  IF key \in DOMAIN scalar THEN [scalar EXCEPT ![key] = @ + 1]
  ELSE scalar @@ (key :> 1)

ScalarOf(scalar, key) == IF key \in DOMAIN scalar THEN scalar[key] ELSE 0

\* The sum of the counts of a keyed scalar.
RECURSIVE ScalarSum(_)
ScalarSum(scalar) ==
  IF DOMAIN scalar = {} THEN 0
  ELSE LET key == CHOOSE k \in DOMAIN scalar : TRUE
       IN scalar[key] + ScalarSum([k \in DOMAIN scalar \ {key} |-> scalar[k]])

\* The loop collecting the ids of the documents tied at the top score, from
\* entry i on.
RECURSIVE TopDocIDsFrom(_, _, _)
TopDocIDsFrom(docScores, i, ids) ==
  IF i > Len(docScores) \/ docScores[i].score # docScores[1].score THEN ids
  ELSE TopDocIDsFrom(docScores, i + 1, ids \cup {docScores[i].document.id})

TopDocIDs(docScores) ==
  IF docScores[1].score # Infinity THEN TopDocIDsFrom(docScores, 1, {})
  ELSE {}

TipForStatus_AskAndRefreshSwapped(status) ==
  CASE status \in {"downloading", "staging", "readyForRestart"} ->
         TIPS.UPDATE_RESTART
    [] status = "downloadAndInstall" -> TIPS.UPDATE_REFRESH
    [] status = "noUpdatesFound" -> TIPS.UPDATE_ASK
    [] status = "checking" -> TIPS.NONE
    [] OTHER -> TIPS.UPDATE_WEB

\* The switch over the update status; checking selects no tip.
TipForStatus(status) ==
  CASE status \in {"downloading", "staging", "readyForRestart"} ->
         TIPS.UPDATE_RESTART
    [] status = "downloadAndInstall" -> TIPS.UPDATE_ASK
    [] status = "noUpdatesFound" -> TIPS.UPDATE_REFRESH
    [] status = "checking" -> TIPS.NONE
    [] OTHER -> TIPS.UPDATE_WEB

\* What a handler that returns no value hands back.
ReturnsUndefined == [op |-> "return", value |-> undefined]

\* An invocation that throws hands back no value.
Throws(error) == [op |-> "throw", value |-> error]

\* What an onBehaviorRequested invocation hands back to the urlbar.
\* with the tip it selected and what its await resolved to.
BehaviorReturn(tip, awaited, value) ==
  [op |-> "onBehaviorRequested", tip |-> tip, awaited |-> awaited,
   value |-> value]

\* What windows.getLastFocused resolved to.
Window(incognito) == IF incognito THEN "private" ELSE "not private"

ShowTip_AlwaysActive(tip, awaited) ==
  /\ currentTip' = tip
  /\ tipsShownInCurrentEngagement' = SetAdd(tipsShownInCurrentEngagement, tip)
  /\ ret' = BehaviorReturn(tip, awaited, "active")

\* The end of onBehaviorRequested once currentTip is chosen: the tip joins
\* tipsShownInCurrentEngagement and the branch decides the value.
ShowTip(tip, awaited) ==
  /\ currentTip' = tip
  /\ tipsShownInCurrentEngagement' = SetAdd(tipsShownInCurrentEngagement, tip)
  /\ ret' = BehaviorReturn(tip, awaited,
                           IF studyBranch = BRANCHES.TREATMENT
                           THEN "active" ELSE "inactive")

\* The four listeners enroll registers with the urlbar.
UrlbarListeners ==
  {"onBehaviorRequested", "onResultsRequested", "onResultPicked",
   "onEngagement"}

\* The urlbar calls a listener while it is registered.
Registered(listener) == listener \in listeners

\* The scorer fields after queryScorer.addDocument({ id, phrases }) for the
\* entries of DOCUMENTS from entry k on.
RECURSIVE AddDocuments(_, _, _, _)
AddDocuments(docs, t, table, k) ==
  IF k > Len(DOCUMENTS) THEN [documents |-> docs, rootNode |-> t]
  ELSE AddDocuments(SetAdd(docs, DOCUMENTS[k]),
                    AddPhraseStrs(t, DOCUMENTS[k], table, 1), table, k + 1)

\* queryScorer once enroll has loaded the documents.
LoadedScorer == AddDocuments(<<>>, EmptyTree, BackgroundVariations, 1)

\* score is a function of the scorer's fields and the query: its values on
\* the loaded scorer, computed once.
LoadedScores ==
  [searchString \in SearchStrings |->
     ScoreOf(LoadedScorer.documents, LoadedScorer.rootNode, 1, searchString)]

\* queryScorer.score(searchString)
ScorerScore(searchString) ==
  IF /\ _rootNode = LoadedScorer.rootNode
     /\ _documents = LoadedScorer.documents
     /\ _distanceThreshold = 1
     /\ searchString \in SearchStrings
  THEN LoadedScores[searchString]
  ELSE ScoreOf(_documents, _rootNode, _distanceThreshold, searchString)

\* background.js is loaded in a browser with an empty local storage;
\* queryScorer is constructed with the default threshold.
InitBackground ==
  /\ _distanceThreshold = 1
  /\ _variations = BackgroundVariations
  /\ _documents = <<>>
  /\ _rootNode = EmptyTree
  /\ ret = NoCall
  /\ _documentsByWord = <<>>
  /\ BackgroundLoaded
  /\ storage = EmptyStorage

\* main with an active study of a recognized branch, and enroll up to the
\* registration of the four urlbar listeners.
main(branch) ==
  /\ enrollPc = "main"
  /\ studyBranch' = branch
  /\ listeners' = listeners \cup UrlbarListeners
  /\ enrollPc' = "listeners"
  /\ ret' = ReturnsUndefined
  /\ UNCHANGED <<_distanceThreshold, _variations, _documents, _rootNode,
                 _documentsByWord, currentTip, tipsShownInCurrentEngagement,
                 tipPicked, openedSurvey, storage, scalars, tabs, displayed,
                 session, behaviorCalls, surveyCalls, timers,
                 engagementTelemetry, unenrollPc>>

\* enroll from engagementTelemetry.set to the await of storage.local.get:
\* the documents are loaded into queryScorer.
enrollDocuments ==
  /\ enrollPc = "listeners"
  /\ engagementTelemetry' = TRUE
  /\ LET scorer == AddDocuments(_documents, _rootNode, _variations, 1)
     IN _documents' = scorer.documents /\ _rootNode' = scorer.rootNode
  /\ enrollPc' = "storage"
  /\ ret' = ReturnsUndefined
  /\ UNCHANGED <<_distanceThreshold, _variations, _documentsByWord,
                 studyBranch, currentTip, tipsShownInCurrentEngagement,
                 tipPicked, openedSurvey, storage, scalars, tabs, displayed,
                 session, behaviorCalls, surveyCalls, timers,
                 listeners, unenrollPc>>

\* A maybeOpenSurvey invocation waiting at its first await.
SurveyCall(tips, action, caller) ==
  [tips |-> tips, action |-> action, caller |-> caller, pc |-> "get"]

\* enroll after storage.local.get: with a surveyPickedTip it calls
\* maybeOpenSurvey and, once that has returned, clears the storage.
enrollStorage ==
  /\ enrollPc = "storage"
  /\ IF storage.surveyPickedTip = undefined
     THEN /\ enrollPc' = "done"
          /\ UNCHANGED <<storage, surveyCalls>>
     ELSE IF openedSurvey
     THEN /\ enrollPc' = "done"
          /\ storage' = EmptyStorage
          /\ UNCHANGED surveyCalls
     ELSE /\ surveyCalls' =
               Append(surveyCalls,
                      SurveyCall(<<storage.surveyPickedTip>>, "picked",
                                 "enroll"))
          /\ enrollPc' = "survey"
          /\ UNCHANGED storage
  /\ ret' = ReturnsUndefined
  /\ UNCHANGED <<_distanceThreshold, _variations, _documents, _rootNode,
                 _documentsByWord, studyBranch, currentTip,
                 tipsShownInCurrentEngagement, tipPicked, openedSurvey,
                 scalars, tabs, displayed, session, behaviorCalls, timers,
                 listeners, engagementTelemetry, unenrollPc>>

\* onBehaviorRequested from its start to its first await or its return.
\* On a scorer without documents docScores[0] is undefined and reading
\* its score throws.
onBehaviorRequested(searchString) ==
  LET docScores == ScorerScore(searchString)
      topDocIDs == TopDocIDs(docScores)
  IN /\ displayed' = NoResult
     /\ IF searchString = <<>>
        THEN /\ currentTip' = TIPS.NONE
             /\ ret' = BehaviorReturn(TIPS.NONE, "none", "inactive")
             /\ UNCHANGED <<tipsShownInCurrentEngagement, behaviorCalls>>
        ELSE IF docScores = <<>>
        THEN /\ currentTip' = TIPS.NONE
             /\ ret' = Throws("TypeError")
             /\ UNCHANGED <<tipsShownInCurrentEngagement, behaviorCalls>>
        ELSE IF "update" \in topDocIDs \/ "clear" \in topDocIDs
        THEN /\ currentTip' = TIPS.NONE
             /\ behaviorCalls' =
                  Append(behaviorCalls,
                         [topDocIDs |-> topDocIDs,
                          pc |-> IF "update" \in topDocIDs
                                 THEN "status" ELSE "window"])
             /\ ret' = [op |-> "await"]
             /\ UNCHANGED tipsShownInCurrentEngagement
        ELSE IF "refresh" \in topDocIDs
        THEN /\ ShowTip(TIPS.REFRESH, "none")
             /\ UNCHANGED behaviorCalls
        ELSE /\ currentTip' = TIPS.NONE
             /\ ret' = BehaviorReturn(TIPS.NONE, "none", "inactive")
             /\ UNCHANGED <<tipsShownInCurrentEngagement, behaviorCalls>>
     /\ UNCHANGED <<_distanceThreshold, _variations, _documents, _rootNode,
                    _documentsByWord, studyBranch, tipPicked, openedSurvey,
                    storage, scalars, tabs, session, enrollPc, surveyCalls,
                    timers,
                    listeners, engagementTelemetry, unenrollPc>>

\* onBehaviorRequested after getBrowserUpdateStatus has resolved.
onBehaviorRequestedStatus(i, status) ==
  LET call == behaviorCalls[i]
  IN /\ call.pc = "status"
     /\ behaviorCalls' = RemoveAt(behaviorCalls, i)
     /\ IF status = "checking"
        THEN /\ ret' = BehaviorReturn(TIPS.NONE, status, "inactive")
             /\ UNCHANGED <<currentTip, tipsShownInCurrentEngagement>>
        ELSE ShowTip(TipForStatus(status), status)
     /\ UNCHANGED <<_distanceThreshold, _variations, _documents, _rootNode,
                    _documentsByWord, studyBranch, tipPicked, openedSurvey,
                    storage, scalars, tabs, displayed, session, enrollPc,
                    surveyCalls, timers,
                    listeners, engagementTelemetry, unenrollPc>>

onBehaviorRequestedWindow_IgnoresIncognito(i, incognito) ==
  /\ behaviorCalls[i].pc = "window"
  /\ behaviorCalls' = RemoveAt(behaviorCalls, i)
  /\ ShowTip(TIPS.CLEAR, Window(incognito))
  /\ UNCHANGED <<_distanceThreshold, _variations, _documents, _rootNode,
                 _documentsByWord, studyBranch, tipPicked, openedSurvey,
                 storage, scalars, tabs, displayed, session, enrollPc,
                 surveyCalls, timers,
                 listeners, engagementTelemetry, unenrollPc>>

\* onBehaviorRequested after windows.getLastFocused has resolved.
onBehaviorRequestedWindow(i, incognito) ==
  LET call == behaviorCalls[i]
  IN /\ call.pc = "window"
     /\ behaviorCalls' = RemoveAt(behaviorCalls, i)
     /\ IF ~incognito
        THEN ShowTip(TIPS.CLEAR, Window(incognito))
        ELSE IF "refresh" \in call.topDocIDs
        THEN ShowTip(TIPS.REFRESH, Window(incognito))
        ELSE /\ ret' = BehaviorReturn(TIPS.NONE, Window(incognito),
                                      "inactive")
             /\ UNCHANGED <<currentTip, tipsShownInCurrentEngagement>>
     /\ UNCHANGED <<_distanceThreshold, _variations, _documents, _rootNode,
                    _documentsByWord, studyBranch, tipPicked, openedSurvey,
                    storage, scalars, tabs, displayed, session, enrollPc,
                    surveyCalls, timers,
                    listeners, engagementTelemetry, unenrollPc>>

\* onResultsRequested returns one tip result of type currentTip, which the
\* urlbar view displays.
onResultsRequested ==
  /\ displayed' = currentTip
  /\ ret' = [op |-> "onResultsRequested", tip |-> currentTip]
  /\ UNCHANGED <<_distanceThreshold, _variations, _documents, _rootNode,
                 _documentsByWord, studyBranch, currentTip,
                 tipsShownInCurrentEngagement, tipPicked, openedSurvey,
                 storage, scalars, tabs, session, enrollPc, behaviorCalls,
                 surveyCalls, timers,
                 listeners, engagementTelemetry, unenrollPc>>

\* The tips whose action restarts the browser.
RestartTips ==
  {TIPS.REFRESH, TIPS.UPDATE_ASK, TIPS.UPDATE_REFRESH, TIPS.UPDATE_RESTART}

\* A survey tab as maybeOpenSurvey creates it.
SurveyTab(tips, action) ==
  [url |-> "survey", b |-> studyBranch, action |-> action, tips |-> tips]

onResultPicked_NeverSaves(tip) ==
  LET willRestart == tip \in RestartTips
  IN /\ tipPicked' = TRUE
     /\ scalars' = [scalars EXCEPT !.tipPickedCount = keyedScalarAdd(@, tip)]
     /\ storage' = storage
     /\ tabs' = IF tip = TIPS.UPDATE_WEB
                THEN Append(tabs, [url |-> "https://www.mozilla.org/firefox/new/"])
                ELSE tabs
     /\ IF ~willRestart /\ ~openedSurvey
        THEN surveyCalls' =
               Append(surveyCalls,
                      SurveyCall(<<tip>>, "picked", "onResultPicked"))
        ELSE UNCHANGED surveyCalls
     /\ displayed' = NoResult
     /\ ret' = ReturnsUndefined
     /\ UNCHANGED <<_distanceThreshold, _variations, _documents, _rootNode,
                    _documentsByWord, studyBranch, currentTip,
                    tipsShownInCurrentEngagement, openedSurvey, session,
                    enrollPc, behaviorCalls, timers,
                    listeners, engagementTelemetry, unenrollPc>>

\* onResultPicked: the user picks the tip result the view displays.  The
\* call of maybeOpenSurvey runs up to its first await.
onResultPicked(tip) ==
  LET willRestart == tip \in RestartTips
  IN /\ tipPicked' = TRUE
     /\ scalars' = [scalars EXCEPT !.tipPickedCount = keyedScalarAdd(@, tip)]
     /\ storage' = IF willRestart
                   THEN [storage EXCEPT !.surveyPickedTip = tip]
                   ELSE storage
     /\ tabs' = IF tip = TIPS.UPDATE_WEB
                THEN Append(tabs, [url |-> "https://www.mozilla.org/firefox/new/"])
                ELSE tabs
     /\ IF ~willRestart /\ ~openedSurvey
        THEN surveyCalls' =
               Append(surveyCalls,
                      SurveyCall(<<tip>>, "picked", "onResultPicked"))
        ELSE UNCHANGED surveyCalls
     /\ displayed' = NoResult
     /\ ret' = ReturnsUndefined
     /\ UNCHANGED <<_distanceThreshold, _variations, _documents, _rootNode,
                    _documentsByWord, studyBranch, currentTip,
                    tipsShownInCurrentEngagement, openedSurvey, session,
                    enrollPc, behaviorCalls, timers,
                    listeners, engagementTelemetry, unenrollPc>>

\* keyedScalarAdd(TELEMETRY_SHOWN, tip, 1) for the tips from entry k on.
RECURSIVE AddShown(_, _, _)
AddShown(scalar, tips, k) ==
  IF k > Len(tips) THEN scalar
  ELSE AddShown(keyedScalarAdd(scalar, tips[k]), tips, k + 1)

\* onEngagement.  An abandonment closes the view.
onEngagement(state) ==
  /\ IF tipsShownInCurrentEngagement = <<>>
     THEN UNCHANGED <<scalars, tipPicked, timers,
                      tipsShownInCurrentEngagement>>
     ELSE /\ IF state \in {"engagement", "abandonment"}
             THEN /\ scalars' =
                       [scalars EXCEPT
                          !.tipShownCount =
                             AddShown(@, tipsShownInCurrentEngagement, 1)]
                  /\ tipPicked' = FALSE
                  /\ timers' = Append(timers, tipsShownInCurrentEngagement)
             ELSE UNCHANGED <<scalars, tipPicked, timers>>
          /\ tipsShownInCurrentEngagement' = <<>>
  /\ displayed' = IF state = "abandonment" THEN NoResult ELSE displayed
  /\ ret' = ReturnsUndefined
  /\ UNCHANGED <<_distanceThreshold, _variations, _documents, _rootNode,
                 _documentsByWord, studyBranch, currentTip, openedSurvey,
                 storage, tabs, session, enrollPc, behaviorCalls,
                 surveyCalls,
                 listeners, engagementTelemetry, unenrollPc>>

\* The setTimeout callback of onEngagement, 200 ms later.
timeout(i) ==
  /\ timers' = RemoveAt(timers, i)
  /\ IF ~tipPicked /\ ~openedSurvey
     THEN surveyCalls' =
            Append(surveyCalls, SurveyCall(timers[i], "ignored", "timeout"))
     ELSE UNCHANGED surveyCalls
  /\ ret' = ReturnsUndefined
  /\ UNCHANGED <<_distanceThreshold, _variations, _documents, _rootNode,
                 _documentsByWord, studyBranch, currentTip,
                 tipsShownInCurrentEngagement, tipPicked, openedSurvey,
                 storage, scalars, tabs, displayed, session, enrollPc,
                 behaviorCalls,
                 listeners, engagementTelemetry, unenrollPc>>

\* The return of the maybeOpenSurvey invocation i.  enroll waits for the
\* invocation it made and then clears the storage.
SurveyReturns(i, store) ==
  /\ surveyCalls' = RemoveAt(surveyCalls, i)
  /\ IF surveyCalls[i].caller = "enroll"
     THEN storage' = EmptyStorage /\ enrollPc' = "done"
     ELSE storage' = store /\ UNCHANGED enrollPc

\* maybeOpenSurvey after storage.local.get has resolved; random is the
\* outcome of Math.random() > 0.02.
maybeOpenSurveyStorage(i, random) ==
  LET call == surveyCalls[i]
  IN /\ call.pc = "get"
     /\ IF \/ storage.forceSurvey = 2
           \/ /\ call.action # "picked"
              /\ random
              /\ storage.forceSurvey = 0
        THEN SurveyReturns(i, storage) /\ UNCHANGED tabs
        ELSE /\ tabs' = Append(tabs, SurveyTab(call.tips, call.action))
             /\ surveyCalls' = [surveyCalls EXCEPT ![i].pc = "create"]
             /\ UNCHANGED <<storage, enrollPc>>
     /\ ret' = ReturnsUndefined
     /\ UNCHANGED <<_distanceThreshold, _variations, _documents, _rootNode,
                    _documentsByWord, studyBranch, currentTip,
                    tipsShownInCurrentEngagement, tipPicked, openedSurvey,
                    scalars, displayed, session, behaviorCalls, timers,
                    listeners, engagementTelemetry, unenrollPc>>

\* maybeOpenSurvey after tabs.create has resolved.
maybeOpenSurveyCreated(i) ==
  /\ surveyCalls[i].pc = "create"
  /\ openedSurvey' = TRUE
  /\ SurveyReturns(i, storage)
  /\ ret' = ReturnsUndefined
  /\ UNCHANGED <<_distanceThreshold, _variations, _documents, _rootNode,
                 _documentsByWord, studyBranch, currentTip,
                 tipsShownInCurrentEngagement, tipPicked, scalars, tabs,
                 displayed, session, behaviorCalls, timers,
                 listeners, engagementTelemetry, unenrollPc>>

\* The browser restarts once a restarting tip was picked: background.js is
\* loaded anew, and the local storage is kept.
restart ==
  /\ _documents' = <<>>
  /\ _rootNode' = EmptyTree
  /\ studyBranch' = undefined
  /\ currentTip' = TIPS.NONE
  /\ tipsShownInCurrentEngagement' = <<>>
  /\ tipPicked' = FALSE
  /\ openedSurvey' = FALSE
  /\ scalars' = [tipShownCount |-> <<>>, tipPickedCount |-> <<>>]
  /\ tabs' = <<>>
  /\ displayed' = NoResult
  /\ session' = session + 1
  /\ enrollPc' = "main"
  /\ behaviorCalls' = <<>>
  /\ surveyCalls' = <<>>
  /\ timers' = <<>>
  /\ listeners' = {}
  /\ unenrollPc' = "none"
  /\ ret' = ReturnsUndefined
  /\ UNCHANGED <<_distanceThreshold, _variations, _documentsByWord, storage,
                 engagementTelemetry>>

\* The bounds of the sessions after a step.
WithinBounds ==
  /\ Len(behaviorCalls') <= MaxBehaviorCalls
  /\ Len(surveyCalls') <= MaxSurveyCalls
  /\ Len(timers') <= MaxTimers
  /\ Len(tipsShownInCurrentEngagement') <= MaxTipsShown
  /\ ScalarSum(scalars'.tipShownCount) <= MaxShown
  /\ ScalarSum(scalars'.tipPickedCount) <= MaxPicked

MainStep ==
  /\ \E branch \in {BRANCHES.CONTROL, BRANCHES.TREATMENT} : main(branch)
  /\ UNCHANGED urlbarVars

EnrollDocumentsStep == enrollDocuments /\ UNCHANGED urlbarVars

EnrollStorageStep == enrollStorage /\ WithinBounds /\ UNCHANGED urlbarVars

BehaviorRequestedStep ==
  /\ Registered("onBehaviorRequested")
  /\ \E searchString \in SearchStrings : onBehaviorRequested(searchString)
  /\ WithinBounds
  /\ UNCHANGED urlbarVars

BehaviorStatusStep ==
  /\ \E i \in 1..Len(behaviorCalls), status \in UpdateStatuses :
       onBehaviorRequestedStatus(i, status)
  /\ WithinBounds
  /\ UNCHANGED urlbarVars

BehaviorWindowStep ==
  /\ \E i \in 1..Len(behaviorCalls), incognito \in BOOLEAN :
       onBehaviorRequestedWindow(i, incognito)
  /\ WithinBounds
  /\ UNCHANGED urlbarVars

\* The urlbar asks for the results of a query right after
\* onBehaviorRequested has returned "active" for it.
ResultsRequestedStep ==
  /\ Registered("onResultsRequested")
  /\ ret.op = "onBehaviorRequested"
  /\ ret.value = "active"
  /\ onResultsRequested
  /\ UNCHANGED urlbarVars

\* The user picks the tip result the view displays.
ResultPickedStep ==
  /\ Registered("onResultPicked")
  /\ displayed # NoResult
  /\ onResultPicked(displayed)
  /\ WithinBounds
  /\ UNCHANGED urlbarVars

EngagementStep ==
  /\ Registered("onEngagement")
  /\ \E state \in {"start", "engagement", "abandonment"} : onEngagement(state)
  /\ WithinBounds
  /\ UNCHANGED urlbarVars

TimeoutStep ==
  /\ \E i \in 1..Len(timers) : timeout(i)
  /\ WithinBounds
  /\ UNCHANGED urlbarVars

SurveyStorageStep ==
  /\ \E i \in 1..Len(surveyCalls), random \in BOOLEAN :
       maybeOpenSurveyStorage(i, random)
  /\ UNCHANGED urlbarVars

SurveyCreatedStep ==
  /\ \E i \in 1..Len(surveyCalls) : maybeOpenSurveyCreated(i)
  /\ UNCHANGED urlbarVars

NextBackground ==
  \/ MainStep
  \/ EnrollDocumentsStep
  \/ EnrollStorageStep
  \/ BehaviorRequestedStep
  \/ BehaviorStatusStep
  \/ BehaviorWindowStep
  \/ ResultsRequestedStep
  \/ ResultPickedStep
  \/ EngagementStep
  \/ TimeoutStep
  \/ SurveyStorageStep
  \/ SurveyCreatedStep

SpecBackground == InitBackground /\ [][NextBackground]_vars

\* ------------------------------------------------------------------------
\* The sessions of the surveys: tests and QA may have set forceSurvey,
\* the queries select the clear tip, which does not restart the browser,
\* or the refresh tip, which does, and maybeOpenSurvey invocations overlap.
\* ------------------------------------------------------------------------

\* At most this many maybeOpenSurvey invocations overlap at their awaits.
MaxOverlap == 2

\* The browser sessions of a behaviour.
MaxSessions == 2

SurveySearchStrings ==
  { <<"h","o","w"," ","t","o"," ","c","l","e","a","r"," ","c","a","c","h","e">>,
    <<"r","e","s","e","t"," ","f","i","r","e","f","o","x">> }

InitSurvey ==
  /\ _distanceThreshold = 1
  /\ _variations = BackgroundVariations
  /\ _documents = <<>>
  /\ _rootNode = EmptyTree
  /\ ret = NoCall
  /\ _documentsByWord = <<>>
  /\ BackgroundLoaded
  /\ storage \in [surveyPickedTip : {undefined}, forceSurvey : {0, 1, 2}]

WithinSurveyBounds ==
  /\ Len(behaviorCalls') <= MaxBehaviorCalls
  /\ Len(surveyCalls') <= MaxOverlap
  /\ Len(timers') <= MaxTimers
  /\ Len(tipsShownInCurrentEngagement') <= MaxTipsShown
  /\ ScalarSum(scalars'.tipShownCount) <= MaxShown
  /\ ScalarSum(scalars'.tipPickedCount) <= MaxPicked

EnrollSavedTipStep == enrollStorage /\ WithinSurveyBounds /\ UNCHANGED urlbarVars

QueryStep ==
  /\ Registered("onBehaviorRequested")
  /\ \E searchString \in SurveySearchStrings : onBehaviorRequested(searchString)
  /\ WithinSurveyBounds
  /\ UNCHANGED urlbarVars

WindowStep ==
  /\ \E i \in 1..Len(behaviorCalls), incognito \in BOOLEAN :
       onBehaviorRequestedWindow(i, incognito)
  /\ WithinSurveyBounds
  /\ UNCHANGED urlbarVars

PickStep ==
  /\ Registered("onResultPicked")
  /\ displayed # NoResult
  /\ onResultPicked(displayed)
  /\ WithinSurveyBounds
  /\ UNCHANGED urlbarVars

EngagementEndStep ==
  /\ Registered("onEngagement")
  /\ \E state \in {"start", "engagement", "abandonment"} : onEngagement(state)
  /\ WithinSurveyBounds
  /\ UNCHANGED urlbarVars

TimerStep ==
  /\ \E i \in 1..Len(timers) : timeout(i)
  /\ WithinSurveyBounds
  /\ UNCHANGED urlbarVars

\* The action of a restarting tip restarts the browser.
RestartStep ==
  /\ session < MaxSessions
  /\ storage.surveyPickedTip # undefined
  /\ restart
  /\ UNCHANGED urlbarVars

NextSurvey ==
  \/ MainStep
  \/ EnrollDocumentsStep
  \/ EnrollSavedTipStep
  \/ QueryStep
  \/ WindowStep
  \/ ResultsRequestedStep
  \/ PickStep
  \/ EngagementEndStep
  \/ TimerStep
  \/ SurveyStorageStep
  \/ SurveyCreatedStep
  \/ RestartStep

SpecSurvey == InitSurvey /\ [][NextSurvey]_vars

\* ------------------------------------------------------------------------
\* The survey page.
\* ------------------------------------------------------------------------

\* The survey tabs maybeOpenSurvey has created in the browser session.
SurveyTabs == {i \in DOMAIN tabs : tabs[i].url = "survey"}

\* C16: the survey page is opened at most once per browser session: under
\* every interleaving of the timer callbacks, the onResultPicked calls and
\* the call of enroll, maybeOpenSurvey creates at most one survey tab.
C16_AtMostOneSurveyTab == Cardinality(SurveyTabs) <= 1

\* ------------------------------------------------------------------------
\* The branches.
\* ------------------------------------------------------------------------

\* The tips of an insertion-ordered set.
Range(seq) == {seq[k] : k \in DOMAIN seq}

AllTips ==
  {TIPS.CLEAR, TIPS.REFRESH, TIPS.UPDATE_RESTART, TIPS.UPDATE_ASK,
   TIPS.UPDATE_REFRESH, TIPS.UPDATE_WEB}

\* ret is the return of an onBehaviorRequested invocation.
BehaviorReturned == ret.op = "onBehaviorRequested"

\* An onBehaviorRequested invocation that selects a tip records it, returns
\* "active" on the treatment branch and "inactive" on the control branch; one
\* that selects none returns "inactive".
C17_ReturnByBranch ==
  BehaviorReturned =>
    /\ ret.value = IF studyBranch = BRANCHES.TREATMENT /\ ret.tip # TIPS.NONE
                   THEN "active" ELSE "inactive"
    /\ ret.tip # TIPS.NONE => ret.tip \in Range(tipsShownInCurrentEngagement)

\* On the control branch no tip is displayed and none is picked.
C17_ControlShowsNothing ==
  studyBranch = BRANCHES.CONTROL =>
    /\ displayed = NoResult
    /\ scalars.tipPickedCount = <<>>

\* At the end of an engagement the shown count of each recorded tip grows by
\* one and no other count changes.
C17_ShownCounted ==
  \A state \in {"engagement", "abandonment"} :
    onEngagement(state) =>
      /\ \A tip \in AllTips :
           ScalarOf(scalars'.tipShownCount, tip) =
             ScalarOf(scalars.tipShownCount, tip)
               + IF tip \in Range(tipsShownInCurrentEngagement) THEN 1 ELSE 0
      /\ scalars'.tipPickedCount = scalars.tipPickedCount

RefreshString == <<"r","e","s","e","t"," ","f","i","r","e","f","o","x">>

\* An invocation that finds the last-focused window private leaves
\* currentTip and tipsShownInCurrentEngagement without the clear tip unless
\* it found it there.
C18_PrivateWindowSelectsNoClear ==
  \A i \in 1..Len(behaviorCalls) :
    onBehaviorRequestedWindow(i, TRUE) =>
      /\ currentTip' = TIPS.CLEAR => currentTip = TIPS.CLEAR
      /\ TIPS.CLEAR \in Range(tipsShownInCurrentEngagement')
           => TIPS.CLEAR \in Range(tipsShownInCurrentEngagement)
      /\ ret'.tip # TIPS.CLEAR

\* A query for the refresh document selects the refresh tip without asking
\* for the window, once the documents are loaded.
C18_RefreshNeedsNoWindow ==
  onBehaviorRequested(RefreshString) /\ _documents # <<>> =>
    /\ currentTip' = TIPS.REFRESH
    /\ TIPS.REFRESH \in Range(tipsShownInCurrentEngagement')
    /\ behaviorCalls' = behaviorCalls

\* Every return that selected the clear tip found the window not private.
C18_ClearOnlyOutsidePrivate ==
  BehaviorReturned /\ ret.tip = TIPS.CLEAR => ret.awaited = Window(FALSE)

\* C18: the clear tip never appears in a private window: when the
\* last-focused window is incognito, onBehaviorRequested does not set
\* currentTip to CLEAR and does not add CLEAR to
\* tipsShownInCurrentEngagement, while the refresh tip is still selected.
C18_NoClearTipInPrivateWindow ==
  /\ []C18_ClearOnlyOutsidePrivate
  /\ [][C18_PrivateWindowSelectsNoClear /\ C18_RefreshNeedsNoWindow]_vars

\* A query for the clear document has returned without a tip in a private
\* window, after a query of the same engagement selected the refresh tip.
C18_Witness ==
  /\ BehaviorReturned
  /\ ret.awaited = Window(TRUE)
  /\ ret.tip = TIPS.NONE
  /\ currentTip = TIPS.NONE
  /\ tipsShownInCurrentEngagement = <<TIPS.REFRESH>>

\* ------------------------------------------------------------------------
\* The update tips.
\* ------------------------------------------------------------------------

\* The tip the claim gives for an update status.
UpdateTipOf(status) ==
  IF status \in {"downloading", "staging", "readyForRestart"}
  THEN TIPS.UPDATE_RESTART
  ELSE IF status = "downloadAndInstall" THEN TIPS.UPDATE_ASK
  ELSE IF status = "noUpdatesFound" THEN TIPS.UPDATE_REFRESH
  ELSE TIPS.UPDATE_WEB

\* The resumption of an invocation that found the update document among the
\* top documents: checking selects nothing, every other status its tip.
C19_StatusSelectsTip ==
  \A i \in 1..Len(behaviorCalls), status \in UpdateStatuses :
    onBehaviorRequestedStatus(i, status) =>
      /\ "update" \in behaviorCalls[i].topDocIDs
      /\ IF status = "checking"
         THEN /\ ret'.value = "inactive"
              /\ ret'.tip = TIPS.NONE
              /\ currentTip' = currentTip
              /\ tipsShownInCurrentEngagement' = tipsShownInCurrentEngagement
         ELSE /\ currentTip' = UpdateTipOf(status)
              /\ ret'.tip = UpdateTipOf(status)
              /\ UpdateTipOf(status) \in Range(tipsShownInCurrentEngagement')

\* An invocation that waits for the update status has reset currentTip.
C19_WaitingStartsFromNone == ret.op = "await" => currentTip = TIPS.NONE

\* Every return that selected an update tip selected the tip of its status.
C19_ReturnedTipOfStatus ==
  BehaviorReturned /\ ret.awaited \in UpdateStatuses =>
    ret.tip = IF ret.awaited = "checking" THEN TIPS.NONE
              ELSE UpdateTipOf(ret.awaited)

PickedSurveyTabs(tip) ==
  {i \in SurveyTabs : tabs[i].action = "picked" /\ tabs[i].tips = <<tip>>}

C20_PickCallsOrSaves ==
  \A tip \in AllTips :
    onResultPicked(tip) =>
      IF tip \in RestartTips
      THEN /\ storage' = [storage EXCEPT !.surveyPickedTip = tip]
           /\ surveyCalls' = surveyCalls
           /\ tabs' = tabs
      ELSE /\ storage' = storage
           /\ surveyCalls' =
                IF openedSurvey THEN surveyCalls
                ELSE Append(surveyCalls,
                            SurveyCall(<<tip>>, "picked", "onResultPicked"))

\* A "picked" invocation opens the survey for its tip unless forceSurvey
\* is 2.
C20_PickedInvocationOpens ==
  \A i \in 1..Len(surveyCalls), random \in BOOLEAN :
    /\ maybeOpenSurveyStorage(i, random)
    /\ surveyCalls[i].action = "picked"
    /\ storage.forceSurvey # 2
    => tabs' = Append(tabs, SurveyTab(surveyCalls[i].tips, "picked"))

\* enroll calls maybeOpenSurvey([surveyPickedTip], "picked") for the tip it
\* finds in the storage.
C20_EnrollCallsForSavedTip ==
  enrollStorage /\ storage.surveyPickedTip # undefined =>
    IF openedSurvey
    THEN surveyCalls' = surveyCalls /\ storage' = EmptyStorage
    ELSE /\ surveyCalls' =
              Append(surveyCalls,
                     SurveyCall(<<storage.surveyPickedTip>>, "picked", "enroll"))
         /\ storage' = storage

\* enroll clears the storage when its maybeOpenSurvey call has returned,
\* and not before.
C20_EnrollClearsAfterwards ==
  /\ \A i \in 1..Len(surveyCalls) :
       /\ surveyCalls[i].caller = "enroll"
       /\ surveyCalls' = RemoveAt(surveyCalls, i)
       /\ session' = session
       => storage' = EmptyStorage /\ enrollPc' = "done"
  /\ enrollPc = "survey" /\ enrollPc' = "survey" /\ session' = session
       => storage'.forceSurvey = storage.forceSurvey

\* While enroll waits for maybeOpenSurvey, that invocation is pending.
C20_EnrollWaitsForSurvey ==
  enrollPc = "survey" <=>
    \E i \in 1..Len(surveyCalls) : surveyCalls[i].caller = "enroll"

-----------------------------------------------------------------------------
(* Where _traverse records a match. *)

\* The nodes of the tree that have children.
InnerNodes == {p \in DOMAIN _rootNode : childrenByWord(_rootNode, p) # {}}

\* The map _traverse returns for the scored query.
TraversalOf(queryString) ==
  _traverse(_rootNode, _distanceThreshold, Tokenize(queryString), <<>>,
            EmptyMap, 0, 0)

-----------------------------------------------------------------------------
(* addDocument with variations: phrases that hold a trigger twice, two    *)
(* triggers, a trigger in upper case, and a trigger as part of a word.    *)

StrBAB == Wb \o Sp \o Wa \o Sp \o Wb

\* The variations maps: those of VariationTables and the one background.js
\* constructs its scorer with.
VariationMaps == VariationTables \cup {BackgroundVariations}

\* Documents with the phrases "b a b"; "firefox update"; "b" and " A  bb ";
\* "a b".
VariationDocPool ==
  { [id |-> "bab",    phrases |-> <<StrBAB>>],
    [id |-> "update", phrases |-> <<StrFirefoxUpdate>>],
    [id |-> "mixed",  phrases |-> <<StrB, StrMixed>>],
    [id |-> "ab",     phrases |-> <<StrAB>>] }

\* new QueryScorer({ distanceThreshold, variations })
InitVariations ==
  /\ _distanceThreshold \in 0..1
  /\ _variations \in VariationMaps
  /\ _documents = <<>>
  /\ _rootNode = EmptyTree
  /\ ret = NoCall
  /\ OthersIdle

AddVariationDocumentStep ==
  \E doc \in VariationDocPool :
    /\ \/ Len(_documents) < MaxDocs
       \/ \E i \in 1..Len(_documents) : _documents[i] = doc
    /\ addDocument(doc)
    /\ UNCHANGED otherVars

NextVariations == AddVariationDocumentStep \/ ScoreStep

SpecVariations == InitVariations /\ [][NextVariations]_vars

\* The entries of the variations map whose trigger is a token of phrase.
Triggered(phrase) ==
  {e \in 1..Len(_variations) :
     \E i \in 1..Len(phrase) : phrase[i] = _variations[e].triggerWord}

\* The pairs (entry, replacement) of the triggered entries.
Replacements(phrase) ==
  UNION {{<<e, r>> : r \in 1..Len(_variations[e].variations)} :
           e \in Triggered(phrase)}

\* phrase with the first occurrence of trigger replaced by words.
FirstReplaced(phrase, trigger, words) ==
  LET first == CHOOSE i \in 1..Len(phrase) :
                 /\ phrase[i] = trigger
                 /\ \A j \in 1..(i - 1) : phrase[j] # trigger
  IN [n \in 1..(Len(phrase) - 1 + Len(words)) |->
        IF n < first THEN phrase[n]
        ELSE IF n < first + Len(words) THEN words[n - first + 1]
        ELSE phrase[n - Len(words) + 1]]

\* C25: for each phrase string of a registered document the list of word
\* sequences addDocument inserts has 1 + (for every variations trigger that
\* is a token of the lowercased phrase, the number of its replacements)
\* entries: the lowercased phrase first, then exactly the sequences that
\* replace the first occurrence of a trigger by the words of one of its
\* replacements and keep every other word; each is a node of the tree that
\* holds the document.
C25_VariantsPerTriggerReplacement ==
  \A doc \in DocSet : \A s \in PhraseStrsOf(doc) :
    LET phrase == Tokenize(s)
        list   == PhraseList(s, _variations)
    IN /\ Len(list) = 1 + Cardinality(Replacements(phrase))
       /\ list[1] = phrase
       /\ \A i \in 1..Len(phrase) : phrase[i] = toLocaleLowerCase(phrase[i])
       /\ {list[j] : j \in 2..Len(list)} =
            { FirstReplaced(phrase, _variations[x[1]].triggerWord,
                            split(_variations[x[1]].variations[x[2]])) :
                x \in Replacements(phrase) }
       /\ \A j \in 1..Len(list) :
            list[j] \in DOMAIN _rootNode /\ doc \in _rootNode[list[j]]

\* C25's case: "b a b" is registered under the map a -> ["a b"],
\* b -> ["bb", " b"]: both triggers are tokens, b twice, and four word
\* sequences are inserted, among them "bb a b" with the second b kept.
C25_Witness ==
  /\ \E doc \in DocSet : StrBAB \in PhraseStrsOf(doc)
  /\ Len(_variations) = 2
  /\ Len(PhraseList(StrBAB, _variations)) = 4
  /\ <<Wbb, Wa, Wb>> \in DOMAIN _rootNode
  /\ <<Wb, Wa, Wbb>> \notin DOMAIN _rootNode

-----------------------------------------------------------------------------
(* Queries with words appended. *)

\* The score of doc for the query string on the scorer as it is.
ScoreFor(queryString, doc) ==
  ScoreIn(ScoreOf(_documents, _rootNode, _distanceThreshold, queryString),
          doc)

\* C28: for a query Q with at least one word and every sequence W of extra
\* trailing words, score(Q + W) gives each document a score less than or
\* equal to the one score(Q) gives it.
C28_AppendingWordsNeverWorsens ==
  (Scored /\ trim(ret.queryString) # <<>>) =>
    \A doc \in DocSet : \A W \in TrailingWords :
      ScoreFor(ret.queryString \o Sp \o W, doc) <= ScoreIn(ret.results, doc)

\* C28's case: for the scored query one document keeps its finite score
\* when a word is appended (the word is not consumed) and another
\* document's score goes from Infinity to a finite one.
C28_Witness ==
  /\ Scored
  /\ trim(ret.queryString) # <<>>
  /\ \E W \in TrailingWords :
       /\ \E doc \in DocSet :
            /\ ScoreIn(ret.results, doc) < Infinity
            /\ ScoreFor(ret.queryString \o Sp \o W, doc) =
                 ScoreIn(ret.results, doc)
       /\ \E doc \in DocSet :
            /\ ScoreIn(ret.results, doc) = Infinity
            /\ ScoreFor(ret.queryString \o Sp \o W, doc) < Infinity

-----------------------------------------------------------------------------
(* The same documents registered in another order. *)

\* The orders in which the registered documents can be added.
Orders ==
  {p \in [1..Len(_documents) -> 1..Len(_documents)] :
     \A i, j \in 1..Len(_documents) : p[i] = p[j] => i = j}

\* The phrase tree after addDocument for docs[1], ..., docs[n] on a new
\* scorer with the variations map of this one.
RECURSIVE TreeOf(_, _)
TreeOf(docs, n) ==
  IF n = 0 THEN EmptyTree
  ELSE AddPhraseStrs(TreeOf(docs, n - 1), docs[n], _variations, 1)

\* What score(queryString) returns on the scorer that registered the
\* documents in the order p.
ScoreInOrder(p, queryString) ==
  LET docs == [i \in 1..Len(_documents) |-> _documents[p[i]]]
  IN ScoreOf(docs, TreeOf(docs, Len(docs)), _distanceThreshold, queryString)

\* C29: a scorer that registered the same documents in any other order
\* gives every document the same score for the query; the returned arrays
\* hold the same scores position by position and differ at most in the
\* order of documents with equal scores.
C29_RegistrationOrderIrrelevant ==
  Scored =>
    \A p \in Orders :
      LET other == ScoreInOrder(p, ret.queryString)
      IN /\ \A doc \in DocSet :
              ScoreIn(other, doc) = ScoreIn(ret.results, doc)
         /\ Len(other) = Len(ret.results)
         /\ \A i \in 1..Len(other) : other[i].score = ret.results[i].score

\* C29's case: two documents that share a phrase are tied with a finite
\* score, and the scorer that registered them in the other order returns
\* them in the other order.
C29_Witness ==
  /\ Scored
  /\ Len(_documents) = 2
  /\ ret.results[1].score < Infinity
  /\ ret.results[1].score = ret.results[2].score
  /\ \E p \in Orders : ScoreInOrder(p, ret.queryString) # ret.results
  /\ \E node \in Leaves : Cardinality(_rootNode[node]) = 2

-----------------------------------------------------------------------------
(* The study: main with whatever getStudy resolves to, and unenroll.       *)

\* A study record as normandyAddonStudy.getStudy resolves to it.
Study(active, branch) == [record |-> TRUE, active |-> active, branch |-> branch]

\* getStudy resolves to null.
NoStudy == [record |-> FALSE, active |-> FALSE, branch |-> undefined]

\* The study records: active or ended, with a branch of BRANCHES, without
\* branch, or with a branch that BRANCHES does not hold.
StudyRecords ==
  {Study(active, branch) :
     active \in BOOLEAN,
     branch \in {BRANCHES.CONTROL, BRANCHES.TREATMENT, undefined, "bogus"}}

\* The sanity check that enrolls whatever the branch is.
Enrollable_AnyBranch(study) == study.active

\* study.active && Object.values(BRANCHES).includes(study.branch)
Enrollable(study) ==
  study.active /\ study.branch \in {BRANCHES.CONTROL, BRANCHES.TREATMENT}

\* main sends "ready" without having called enroll.
mainNotEnrolled ==
  /\ enrollPc = "main"
  /\ enrollPc' = "ready"
  /\ ret' = ReturnsUndefined
  /\ UNCHANGED <<_distanceThreshold, _variations, _documents, _rootNode,
                 _documentsByWord, studyBranch, currentTip,
                 tipsShownInCurrentEngagement, tipPicked, openedSurvey,
                 storage, scalars, tabs, displayed, session, behaviorCalls,
                 surveyCalls, timers, listeners, engagementTelemetry,
                 unenrollPc>>

\* main, with what getStudy and the onInstalled event resolve to.
mainStudy(study, isTemporaryInstall) ==
  IF study.record
  THEN IF Enrollable(study) THEN main(study.branch) ELSE mainNotEnrolled
  ELSE IF isTemporaryInstall THEN main(BRANCHES.TREATMENT)
  ELSE mainNotEnrolled

\* The onUnenroll listener, registered by enroll before the urlbar
\* listeners, runs unenroll: engagementTelemetry.clear is called and
\* awaited.
unenroll ==
  /\ engagementTelemetry' = FALSE
  /\ unenrollPc' = "clear"
  /\ ret' = ReturnsUndefined
  /\ UNCHANGED <<_distanceThreshold, _variations, _documents, _rootNode,
                 _documentsByWord, studyBranch, currentTip,
                 tipsShownInCurrentEngagement, tipPicked, openedSurvey,
                 storage, scalars, tabs, displayed, session, enrollPc,
                 behaviorCalls, surveyCalls, timers, listeners>>

\* The call unenroll makes when the one it awaits has resolved.
UnenrollNext ==
  [clear               |-> "onBehaviorRequested",
   onBehaviorRequested |-> "onResultsRequested",
   onResultsRequested  |-> "onResultPicked",
   onResultPicked      |-> "onEngagement",
   onEngagement        |-> "unenrolled"]

\* unenroll resumes: it removes the next listener and awaits that, or
\* sends the message "unenrolled".
unenrollResume ==
  /\ unenrollPc \in DOMAIN UnenrollNext
  /\ unenrollPc' = UnenrollNext[unenrollPc]
  /\ listeners' = listeners \ {UnenrollNext[unenrollPc]}
  /\ ret' = ReturnsUndefined
  /\ UNCHANGED <<_distanceThreshold, _variations, _documents, _rootNode,
                 _documentsByWord, studyBranch, currentTip,
                 tipsShownInCurrentEngagement, tipPicked, openedSurvey,
                 storage, scalars, tabs, displayed, session, enrollPc,
                 behaviorCalls, surveyCalls, timers, engagementTelemetry>>

StudyMainStep ==
  /\ \E study \in StudyRecords \cup {NoStudy}, isTemporaryInstall \in BOOLEAN :
       mainStudy(study, isTemporaryInstall)
  /\ UNCHANGED urlbarVars

\* The study ends, once, while the onUnenroll listener is registered.
UnenrollStep ==
  /\ enrollPc \notin {"main", "ready"}
  /\ unenrollPc = "none"
  /\ unenroll
  /\ UNCHANGED urlbarVars

UnenrollResumeStep == unenrollResume /\ UNCHANGED urlbarVars

NextStudy ==
  \/ StudyMainStep
  \/ EnrollDocumentsStep
  \/ EnrollSavedTipStep
  \/ UnenrollStep
  \/ UnenrollResumeStep
  \/ QueryStep
  \/ WindowStep
  \/ ResultsRequestedStep
  \/ PickStep
  \/ EngagementEndStep
  \/ TimerStep
  \/ SurveyStorageStep
  \/ SurveyCreatedStep

SpecStudy == InitBackground /\ [][NextStudy]_vars

\* No tip was ever selected, displayed or counted.
NoTipEver ==
  /\ currentTip = TIPS.NONE
  /\ tipsShownInCurrentEngagement = <<>>
  /\ displayed = NoResult
  /\ scalars = [tipShownCount |-> <<>>, tipPickedCount |-> <<>>]
  /\ behaviorCalls = <<>>
  /\ tabs = <<>>

\* C21, the step: with a study record main calls enroll, which registers
\* the urlbar listeners, exactly when the study is active and its branch is
\* "control" or "treatment"; otherwise it registers nothing and only sends
\* "ready".
C21_MainEnrollsOnlyActiveKnownBranch ==
  [][\A study \in StudyRecords :
       mainStudy(study, FALSE) =>
         IF study.active
            /\ study.branch \in {BRANCHES.CONTROL, BRANCHES.TREATMENT}
         THEN /\ studyBranch' = study.branch
              /\ listeners' = UrlbarListeners
              /\ enrollPc' = "listeners"
         ELSE /\ listeners' = {}
              /\ enrollPc' = "ready"
              /\ UNCHANGED <<studyBranch, _documents, _rootNode>>]_vars

\* C21, the states: listeners are registered and documents loaded only
\* after main has called enroll, and once main has finished without
\* enrolling no listener is registered, the scorer holds no document and
\* no tip is ever selected or displayed.
C21_NotEnrolledNeverShowsTip ==
  /\ (listeners # {} \/ _documents # <<>>) =>
       /\ enrollPc \notin {"main", "ready"}
       /\ studyBranch \in {BRANCHES.CONTROL, BRANCHES.TREATMENT}
  /\ enrollPc = "ready" =>
       /\ listeners = {}
       /\ _documents = <<>>
       /\ studyBranch = undefined
       /\ NoTipEver

\* C21: with a study record the add-on enrolls only if the study is active
\* and its branch is "control" or "treatment"; with an ended study, no
\* branch or an unrecognized branch no listener is registered and no query
\* ever produces a tip.
C21_EnrollsOnlyActiveKnownBranch ==
  []C21_NotEnrolledNeverShowsTip /\ C21_MainEnrollsOnlyActiveKnownBranch

\* C21's case: main has finished without enrolling, nothing is registered.
C21_Witness ==
  /\ enrollPc = "ready"
  /\ ret = ReturnsUndefined
  /\ listeners = {}
  /\ studyBranch = undefined

\* C22: once unenroll has sent "unenrolled", the four urlbar listeners are
\* removed and the engagement telemetry is cleared.
C22_UnenrolledRemovesEverything ==
  unenrollPc = "unenrolled" =>
    listeners = {} /\ ~engagementTelemetry

-----------------------------------------------------------------------------
(* The urlbar at full speed: a new query starts while the invocation for   *)
(* the one before waits at its await, engagements select two tips, and an  *)
(* engagement ends while the timer of the one before is pending.  The      *)
(* urlbar's own record of its latest query and of the picks is kept.       *)

\* At most this many onBehaviorRequested invocations wait at an await.
MaxOverlappingQueries == 2

\* At most this many setTimeout callbacks of onEngagement are pending.
MaxPendingTimers == 2

\* At most this many distinct tips are selected in one engagement.
MaxTipsPerEngagement == 2

\* The shown counts of the session add up to at most this.
MaxShownCounts == 2

\* The tests have set forceSurvey to 2: maybeOpenSurvey opens no page.
InitUrlbar ==
  /\ _distanceThreshold = 1
  /\ _variations = BackgroundVariations
  /\ _documents = <<>>
  /\ _rootNode = EmptyTree
  /\ ret = NoCall
  /\ _documentsByWord = <<>>
  /\ BackgroundLoaded
  /\ storage = [surveyPickedTip |-> undefined, forceSurvey |-> 2]

WithinUrlbarBounds ==
  /\ Len(behaviorCalls') <= MaxOverlappingQueries
  /\ Len(surveyCalls') <= MaxSurveyCalls
  /\ Len(timers') <= MaxPendingTimers
  /\ Len(tipsShownInCurrentEngagement') <= MaxTipsPerEngagement
  /\ ScalarSum(scalars'.tipShownCount) <= MaxShownCounts
  /\ ScalarSum(scalars'.tipPickedCount) <= MaxPicked

\* What the urlbar holds of a query once its onBehaviorRequested
\* invocation has handed back r.
Answered(r) ==
  IF r.op = "onBehaviorRequested" THEN [state |-> r.value, tip |-> r.tip]
  ELSE IF r.op = "await" THEN [state |-> "pending", tip |-> TIPS.NONE]
  ELSE [state |-> "inactive", tip |-> TIPS.NONE]

\* The invocation behaviorCalls[i] is the one of the urlbar's latest query:
\* that query is not answered yet, and invocations wait in the order of
\* their queries.
OfLatestQuery(i) == query.state = "pending" /\ i = Len(behaviorCalls)

UrlbarEnrollStorageStep ==
  enrollStorage /\ WithinUrlbarBounds /\ UNCHANGED urlbarVars

\* The urlbar starts a query, which cancels the one before.
UrlbarQueryStep ==
  /\ Registered("onBehaviorRequested")
  /\ \E searchString \in SurveySearchStrings : onBehaviorRequested(searchString)
  /\ WithinUrlbarBounds
  /\ query' = Answered(ret')
  /\ UNCHANGED pickedSince

\* windows.getLastFocused resolves for a waiting invocation, of the latest
\* query or of a cancelled one.
UrlbarWindowStep ==
  /\ \E i \in 1..Len(behaviorCalls), incognito \in BOOLEAN :
       /\ onBehaviorRequestedWindow(i, incognito)
       /\ query' = IF OfLatestQuery(i) THEN Answered(ret') ELSE query
  /\ WithinUrlbarBounds
  /\ UNCHANGED pickedSince

\* The urlbar asks for the results of its latest query once
\* onBehaviorRequested has returned "active" for it.
UrlbarResultsStep ==
  /\ Registered("onResultsRequested")
  /\ query.state = "active"
  /\ onResultsRequested
  /\ query' = [query EXCEPT !.state = "results"]
  /\ UNCHANGED pickedSince

UrlbarPickStep ==
  /\ Registered("onResultPicked")
  /\ displayed # NoResult
  /\ onResultPicked(displayed)
  /\ WithinUrlbarBounds
  /\ pickedSince' = [i \in 1..Len(pickedSince) |-> TRUE]
  /\ UNCHANGED query

\* The end of an engagement ends the urlbar's query.
UrlbarEngagementStep ==
  /\ Registered("onEngagement")
  /\ \E state \in {"start", "engagement", "abandonment"} :
       /\ onEngagement(state)
       /\ query' = IF state = "start" THEN query ELSE NoQuery
  /\ WithinUrlbarBounds
  /\ pickedSince' = IF Len(timers') > Len(timers)
                    THEN Append(pickedSince, FALSE) ELSE pickedSince

UrlbarTimerStep ==
  /\ \E i \in 1..Len(timers) :
       timeout(i) /\ pickedSince' = RemoveAt(pickedSince, i)
  /\ WithinUrlbarBounds
  /\ UNCHANGED query

NextUrlbar ==
  \/ MainStep
  \/ EnrollDocumentsStep
  \/ UrlbarEnrollStorageStep
  \/ UrlbarQueryStep
  \/ UrlbarWindowStep
  \/ UrlbarResultsStep
  \/ UrlbarPickStep
  \/ UrlbarEngagementStep
  \/ UrlbarTimerStep
  \/ SurveyStorageStep

SpecUrlbar == InitUrlbar /\ [][NextUrlbar]_vars

\* C30: the tip onResultsRequested returns for the urlbar's latest query is
\* the tip onBehaviorRequested selected for that query, and an invocation
\* of a cancelled query that resumes from its await leaves currentTip as
\* the later query's invocation set it.
C30_ResultsTipIsTheQuerysTip ==
  [][/\ ret'.op = "onResultsRequested" => ret'.tip = query.tip
     /\ \A i \in 1..Len(behaviorCalls), incognito \in BOOLEAN :
          (/\ onBehaviorRequestedWindow(i, incognito)
           /\ ~OfLatestQuery(i)
           /\ query' = query)
          => currentTip' = currentTip]_vars

\* C26, the set: no tip is held twice in tipsShownInCurrentEngagement.
C26_TipsShownDistinct ==
  \A i, j \in 1..Len(tipsShownInCurrentEngagement) :
    tipsShownInCurrentEngagement[i] = tipsShownInCurrentEngagement[j]
      => i = j

\* C26, the call: onEngagement with "engagement" or "abandonment" adds
\* exactly 1 to the shown count of each tip selected in the engagement and
\* nothing to any other; with another state it adds nothing; after every
\* call tipsShownInCurrentEngagement is empty.
C26_EngagementCountsEachTipOnce ==
  [][\A state \in {"start", "engagement", "abandonment"} :
       onEngagement(state) =>
         /\ tipsShownInCurrentEngagement' = <<>>
         /\ \A tip \in AllTips :
              ScalarOf(scalars'.tipShownCount, tip) =
                ScalarOf(scalars.tipShownCount, tip) +
                  (IF /\ state \in {"engagement", "abandonment"}
                      /\ tip \in Range(tipsShownInCurrentEngagement)
                   THEN 1 ELSE 0)]_vars

\* C26, the other steps: the shown counts change only in an onEngagement
\* call with "engagement" or "abandonment" after a tip was selected.
C26_OnlyEngagementCounts ==
  [][scalars'.tipShownCount # scalars.tipShownCount =>
       /\ tipsShownInCurrentEngagement # <<>>
       /\ \E state \in {"engagement", "abandonment"} : onEngagement(state)]_vars

\* C26: at the end of an engagement the shown count of each distinct tip
\* selected in it goes up by exactly one, however many queries selected
\* the tip; after every onEngagement call tipsShownInCurrentEngagement is
\* empty; nothing is counted for another state or when no tip was selected.
C26_ShownCountedOncePerEngagement ==
  /\ []C26_TipsShownDistinct
  /\ C26_EngagementCountsEachTipOnce
  /\ C26_OnlyEngagementCounts

\* C26's case: an engagement in which the clear and the refresh tip were
\* selected has ended; each is counted once and the set is empty.
C26_Witness ==
  /\ ScalarOf(scalars.tipShownCount, TIPS.CLEAR) = 1
  /\ ScalarOf(scalars.tipShownCount, TIPS.REFRESH) = 1
  /\ tipsShownInCurrentEngagement = <<>>
  /\ \E i \in 1..Len(timers) : Len(timers[i]) = 2

\* C27: the timer of an engagement calls maybeOpenSurvey(tips, "ignored"),
\* once and with the tips shown in that engagement, exactly when
\* onResultPicked has not run between the onEngagement call that set the
\* timer and the timer's firing.
C27_IgnoredSurveyOnlyWithoutPick ==
  [][\A i \in 1..Len(timers) :
       (timeout(i) /\ pickedSince' = RemoveAt(pickedSince, i)) =>
         IF pickedSince[i]
         THEN surveyCalls' = surveyCalls
         ELSE surveyCalls' =
                Append(surveyCalls,
                       SurveyCall(timers[i], "ignored", "timeout"))]_vars

-----------------------------------------------------------------------------
(* Tip selection. *)

\* The ids of the documents that score(searchString) gives the lowest
\* score, when that score is finite.
TiedAtTop(searchString) ==
  LET docScores == ScorerScore(searchString)
      scores    == {docScores[k].score : k \in 1..Len(docScores)}
      lowest    == CHOOSE x \in scores : \A y \in scores : x <= y
  IN IF lowest = Infinity THEN {}
     ELSE {docScores[k].document.id :
             k \in {n \in 1..Len(docScores) : docScores[n].score = lowest}}

\* The update tips.
UpdateTips ==
  {TIPS.UPDATE_RESTART, TIPS.UPDATE_ASK, TIPS.UPDATE_REFRESH, TIPS.UPDATE_WEB}

\* The invocation returns "inactive" without having selected a tip.  As
\* claimed currentTip is NONE at that point; as coded the invocation does
\* not assign currentTip after its reset at the start.
SelectsNone(asClaimed) ==
  /\ ret'.op = "onBehaviorRequested"
  /\ ret'.value = "inactive"
  /\ ret'.tip = TIPS.NONE
  /\ tipsShownInCurrentEngagement' = tipsShownInCurrentEngagement
  /\ IF asClaimed THEN currentTip' = TIPS.NONE ELSE currentTip' = currentTip

\* The invocation selects tip.
Selects(tip) ==
  /\ ret'.op = "onBehaviorRequested"
  /\ ret'.tip = tip
  /\ currentTip' = tip
  /\ tip \in Range(tipsShownInCurrentEngagement')

\* What the steps of an onBehaviorRequested invocation do, by the documents
\* tied at the lowest score: update before clear before refresh.
SelectionSteps(asClaimed) ==
  /\ \A searchString \in SearchStrings :
       onBehaviorRequested(searchString) =>
         IF searchString = <<>>
         THEN /\ ret' = BehaviorReturn(TIPS.NONE, "none", "inactive")
              /\ currentTip' = TIPS.NONE
         ELSE IF _documents = <<>> THEN ret'.op = "throw"
         ELSE LET top == TiedAtTop(searchString)
              IN IF "update" \in top
                 THEN /\ ret'.op = "await"
                      /\ behaviorCalls'[Len(behaviorCalls')].pc = "status"
                 ELSE IF "clear" \in top
                 THEN /\ ret'.op = "await"
                      /\ behaviorCalls'[Len(behaviorCalls')] =
                           [topDocIDs |-> top, pc |-> "window"]
                 ELSE IF "refresh" \in top THEN Selects(TIPS.REFRESH)
                 ELSE /\ top = {}
                      /\ SelectsNone(TRUE)
  /\ \A i \in 1..Len(behaviorCalls), status \in UpdateStatuses :
       onBehaviorRequestedStatus(i, status) =>
         IF status = "checking" THEN SelectsNone(asClaimed)
         ELSE \E tip \in UpdateTips : Selects(tip)
  /\ \A i \in 1..Len(behaviorCalls), incognito \in BOOLEAN :
       onBehaviorRequestedWindow(i, incognito) =>
         IF ~incognito THEN Selects(TIPS.CLEAR)
         ELSE IF "refresh" \in behaviorCalls[i].topDocIDs
         THEN Selects(TIPS.REFRESH)
         ELSE SelectsNone(asClaimed)

\* C24: onBehaviorRequested considers only the documents tied at the
\* lowest score, none when that score is Infinity; it prefers update, then
\* clear outside private windows, then refresh; when none applies it
\* returns "inactive" with currentTip NONE; an empty search string returns
\* "inactive" without a call of the scorer.
C24_SelectionByPreference == [][SelectionSteps(TRUE)]_vars

\* C24 for an invocation by itself: the same, with "leaves currentTip as
\* its reset at the start left it" for "with currentTip NONE".
C24_SelectionLeavesCurrentTip == [][SelectionSteps(FALSE)]_vars

=============================================================================
